---- MODULE Spec2Model ----
(***************************************************************************)
(* CV Checker (sjuratov/cv-checker): the analysis pipeline                 *)
(* (CVCheckerOrchestrator.execute_with_progress), its two consumers        *)
(* (CVCheckerOrchestrator.execute behind POST /api/v1/analyze, and the     *)
(* streaming endpoint), the persistence calls of the request handler, and  *)
(* the hybrid score arithmetic of HybridScoringAgent.analyze.              *)
(*                                                                         *)
(* Scores are held in hundredths of a percent point ("cents"): 66.65 is    *)
(* 6665.  An unrounded blend is held in 1/10000 of a point.                *)
(***************************************************************************)
EXTENDS Integers, Sequences, FiniteSets, TLC

VARIABLES
    cosmos,        \* app.state.cosmos_repository is not None
    mode,          \* consumer of the generator: "api" (execute) or "stream"
    hpc,           \* position of the request handler
    gpc,           \* position of execute_with_progress
    step,          \* step the generator is in, 0 before the first yield
    events,        \* chunks yielded by execute_with_progress, in order
    consumed,      \* number of yielded chunks the consumer has processed
    calls,         \* external calls (agent.run) started, in order
    exc,           \* exception that ended the generator, "none" if none
    failed_at,     \* 1..4: stage that raised; 5: result assembly; 0: none
    job_years_num, \* job_requirements["required_years"] is a number
    hybrid_score,  \* HybridScore returned by analyzer.analyze, or NoScore
    built,         \* AnalysisResult built by _build_analysis_result
    result,        \* what the consumer `execute` captured from the stream
    store,         \* documents created in the Cosmos container, in order
    response,      \* what the HTTP caller of /api/v1/analyze receives
    stream,        \* chunks sent to the client of the streaming endpoint
    det_in,        \* scoring study: det_score.total_score handed to analyze
    llm_in,        \* scoring study: llm_score.total_score handed to analyze
    hybrid_again,  \* scoring study: HybridScore of a second analyze call
    fn,            \* function study: the function under study, "none" if none
    args,          \* function study: the arguments drawn for it
    ret,           \* function study: what it returned so far
    phase,         \* function study: number of steps taken
    caller,        \* the HTTP client of the request, and when it went away
    scraper,       \* LinkedInScraperService and the browser objects it holds
    runs           \* concurrent runs: the state of each orchestrator run

vars == <<cosmos, mode, hpc, gpc, step, events, consumed, calls, exc,
          failed_at, job_years_num, hybrid_score, built, result, store,
          response, stream, det_in, llm_in, hybrid_again,
          fn, args, ret, phase, caller, scraper, runs>>

pipeVars == <<gpc, step, events, consumed, calls, exc, failed_at,
              job_years_num, hybrid_score, built, result, stream>>

studyVars == <<det_in, llm_in, hybrid_again>>

fnVars == <<fn, args, ret, phase>>

\* State outside a single settled request: its client, the scraper service
\* and the runs of the concurrency study.
sideVars == <<caller, scraper, runs>>

-----------------------------------------------------------------------------
(* Values *)

NoScore == [final_score |-> -1, grade |-> "", det |-> -1, llm |-> -1]

NoResult == [id |-> "", overall_score |-> -1]

NoResponse ==
    [status |-> 0, analysis_id |-> "", overall_score |-> -1, message |-> ""]

Progress(n, st) == [type |-> "progress", step |-> n, status |-> st]

ResultEvent == [type |-> "result", step |-> 0, status |-> ""]

ErrorEvent == [type |-> "error", step |-> 0, status |-> ""]

\* The client is connected and waits for its response.
Waiting == [gone |-> FALSE, events |-> 0, calls |-> 0]

Last(s) == s[Len(s)]

-----------------------------------------------------------------------------
(* Score arithmetic *)

\* Python round(x, 2) of the exact value n/q cents: nearest, ties to even.
RoundHalfEven(n, q) ==
    LET f == n \div q
        r == n % q
    IN  IF 2 * r < q THEN f
        ELSE IF 2 * r > q THEN f + 1
        ELSE IF f % 2 = 0 THEN f ELSE f + 1

\* LLMSemanticValidator.validate_and_score: total of the two percentages.
LlmTotal(sem, soft) == RoundHalfEven(625 * sem + 375 * soft, 1000)

\* Mutant of Blend: the two weights exchanged.
BlendSwapped(d, s) == 40 * d + 60 * s

\* det_score.total_score * 0.60 + llm_score.total_score * 0.40, in 1/10000.
Blend(d, s) == 60 * d + 40 * s

\* HybridScoringAgent._calculate_grade, its argument in 1/10000 of a point.
CalculateGrade(x) ==
    IF x >= 950000 THEN "A+"
    ELSE IF x >= 900000 THEN "A"
    ELSE IF x >= 850000 THEN "B+"
    ELSE IF x >= 800000 THEN "B"
    ELSE IF x >= 750000 THEN "C+"
    ELSE IF x >= 700000 THEN "C"
    ELSE IF x >= 600000 THEN "D"
    ELSE "F"

\* HybridScoringAgent.analyze, steps 3 and 4 and the returned HybridScore:
\* the grade is taken from the unrounded blend, final_score is the rounded one.
Analyze(d, s) ==
    [final_score |-> RoundHalfEven(Blend(d, s), 100),
     grade       |-> CalculateGrade(Blend(d, s)),
     det         |-> d,
     llm         |-> s]

\* Mutant of ValidOverallScore: the field accepts every number.
ValidOverallScoreAny(x) == x = x

\* AnalysisResult.overall_score: Field(ge=0.0, le=100.0)
ValidOverallScore(x) == x >= 0 /\ x <= 10000

-----------------------------------------------------------------------------
(* Inputs the external collaborators can hand to the program *)

\* Failures of an external call: the response is not well-formed JSON
\* (json.JSONDecodeError, re-raised as ValueError), or agent.run itself raises.
FailKinds == {"malformed", "transport"}

ExcOf(kind) == IF kind = "malformed" THEN "ValueError" ELSE "TransportError"

\* det_score.total_score values the pipeline study draws: 0.0, 66.65, 100.0.
DetSamples == {0, 6665, 10000}

\* semantic_match_percent / soft_skills_match_percent values the completion
\* capability returns in the pipeline study: -50, 0, 87.49, 100 and 250.
LlmSamples == {-5000, 0, 8749, 10000, 25000}

-----------------------------------------------------------------------------
(* Initial state: one request, before its handler runs *)

Init ==
    /\ cosmos \in BOOLEAN
    /\ mode \in {"api", "stream"}
    /\ hpc = "idle"
    /\ gpc = "init"
    /\ step = 0
    /\ events = <<>>
    /\ consumed = 0
    /\ calls = <<>>
    /\ exc = "none"
    /\ failed_at = 0
    /\ job_years_num = TRUE
    /\ hybrid_score = NoScore
    /\ built = NoResult
    /\ result = NoResult
    /\ store = <<>>
    /\ response = NoResponse
    /\ stream = <<>>
    /\ det_in = 0
    /\ llm_in = 0
    /\ hybrid_again = NoScore
    /\ fn = "none"
    /\ args = <<>>
    /\ ret = <<>>
    /\ phase = 0
    /\ caller = Waiting
    /\ scraper = <<>>
    /\ runs = <<>>

-----------------------------------------------------------------------------
(* execute_with_progress: the async generator.  It runs only while its     *)
(* consumer awaits __anext__, and after a yield only once the consumer has *)
(* processed the chunk and asks for the next one.                          *)

Driving ==
    \/ mode = "api" /\ hpc = "service"
    \/ mode = "stream" /\ hpc = "streaming"

Resumable == Driving /\ consumed = Len(events)

\* First __anext__: runs to the first yield (in_progress of step 1).
GenStart ==
    /\ Driving
    /\ gpc = "init"
    /\ events' = <<Progress(1, "in_progress")>>
    /\ gpc' = "in_progress"
    /\ step' = 1
    /\ UNCHANGED <<cosmos, mode, hpc, consumed, calls, exc, failed_at,
                   job_years_num, hybrid_score, built, result, store,
                   response, stream, det_in, llm_in, hybrid_again>>
    /\ UNCHANGED fnVars
    /\ UNCHANGED sideVars

\* Resumed after the in_progress yield of step n: the stage starts its
\* external call and the generator is suspended on it.  Stage 3 first runs
\* the deterministic scorer, which needs required_years to be a number.
StartCall(n) ==
    /\ Resumable
    /\ gpc = "in_progress"
    /\ step = n
    /\ (n = 3 => job_years_num)
    /\ calls' = Append(calls, n)
    /\ gpc' = "calling"
    /\ UNCHANGED <<cosmos, mode, hpc, step, events, consumed, exc, failed_at,
                   job_years_num, hybrid_score, built, result, store,
                   response, stream, det_in, llm_in, hybrid_again>>
    /\ UNCHANGED fnVars
    /\ UNCHANGED sideVars

\* Stage 3, before its external call: calculate_experience_alignment compares
\* candidate_years >= required_years and raises TypeError when the job
\* extraction returned required_years as a string.
ScoreRaise ==
    /\ Resumable
    /\ gpc = "in_progress"
    /\ step = 3
    /\ ~job_years_num
    /\ gpc' = "failed"
    /\ exc' = "TypeError"
    /\ failed_at' = 3
    /\ UNCHANGED <<cosmos, mode, hpc, step, events, consumed, calls,
                   job_years_num, hybrid_score, built, result, store,
                   response, stream, det_in, llm_in, hybrid_again>>
    /\ UNCHANGED fnVars
    /\ UNCHANGED sideVars

\* Mutant of StageFail: the generator's except clause logs and does not
\* re-raise, so the generator ends as if it had returned.
StageFailSwallow(n, kind) ==
    /\ Driving
    /\ gpc = "calling"
    /\ step = n
    /\ gpc' = "done"
    /\ exc' = ExcOf(kind)
    /\ failed_at' = n
    /\ UNCHANGED <<cosmos, mode, hpc, step, events, consumed, calls,
                   job_years_num, hybrid_score, built, result, store,
                   response, stream, det_in, llm_in, hybrid_again>>
    /\ UNCHANGED fnVars
    /\ UNCHANGED sideVars

\* Mutant of StageFail: the failed call is issued once more.
StageFailRetry(n, kind) ==
    /\ Driving
    /\ gpc = "calling"
    /\ step = n
    /\ Len(calls) < 6
    /\ calls' = Append(calls, n)
    /\ UNCHANGED <<cosmos, mode, hpc, gpc, step, events, consumed, exc,
                   failed_at, job_years_num, hybrid_score, built, result,
                   store, response, stream, det_in, llm_in, hybrid_again>>
    /\ UNCHANGED fnVars
    /\ UNCHANGED sideVars

\* The external call of stage n fails: the agent re-raises, the generator's
\* except clause logs and re-raises, the generator is finished.
StageFail(n, kind) ==
    /\ Driving
    /\ gpc = "calling"
    /\ step = n
    /\ gpc' = "failed"
    /\ exc' = ExcOf(kind)
    /\ failed_at' = n
    /\ UNCHANGED <<cosmos, mode, hpc, step, events, consumed, calls,
                   job_years_num, hybrid_score, built, result, store,
                   response, stream, det_in, llm_in, hybrid_again>>
    /\ UNCHANGED fnVars
    /\ UNCHANGED sideVars

\* Mutant of Completed: the chunk after the call repeats the in_progress
\* status instead of completed.
CompletedWrongStatus(n) ==
    /\ Driving
    /\ gpc = "calling"
    /\ step = n
    /\ events' = Append(events, Progress(n, "in_progress"))
    /\ gpc' = "completed"

\* The external call of stage n returned parseable JSON: the generator runs
\* on to the completed yield of step n.
Completed(n) ==
    /\ Driving
    /\ gpc = "calling"
    /\ step = n
    /\ events' = Append(events, Progress(n, "completed"))
    /\ gpc' = "completed"

\* Mutant of JobParsed: the CV extraction call is started as soon as the job
\* extraction returns, before the completed chunk of step 1 is consumed.
JobParsedPrefetch(num) ==
    /\ Completed(1)
    /\ job_years_num' = num
    /\ calls' = Append(calls, 2)
    /\ UNCHANGED <<cosmos, mode, hpc, step, consumed, exc, failed_at,
                   hybrid_score, built, result, store, response, stream,
                   det_in, llm_in, hybrid_again>>
    /\ UNCHANGED fnVars
    /\ UNCHANGED sideVars

\* Step 1: job_parser.parse returned; required_years is whatever JSON value
\* the response held (number or string).
JobParsed(num) ==
    /\ Completed(1)
    /\ job_years_num' = num
    /\ UNCHANGED <<cosmos, mode, hpc, step, consumed, calls, exc, failed_at,
                   hybrid_score, built, result, store, response, stream,
                   det_in, llm_in, hybrid_again>>
    /\ UNCHANGED fnVars
    /\ UNCHANGED sideVars

\* Step 2: cv_parser.parse returned.
CVParsed ==
    /\ Completed(2)
    /\ UNCHANGED <<cosmos, mode, hpc, step, consumed, calls, exc, failed_at,
                   job_years_num, hybrid_score, built, result, store,
                   response, stream, det_in, llm_in, hybrid_again>>
    /\ UNCHANGED fnVars
    /\ UNCHANGED sideVars

\* Step 3: the semantic validator returned sem and soft; analyzer.analyze
\* blends them with the deterministic total d.
Analyzed(d, sem, soft) ==
    /\ Completed(3)
    /\ hybrid_score' = Analyze(d, LlmTotal(sem, soft))
    /\ UNCHANGED <<cosmos, mode, hpc, step, consumed, calls, exc, failed_at,
                   job_years_num, built, result, store, response, stream,
                   det_in, llm_in, hybrid_again>>
    /\ UNCHANGED fnVars
    /\ UNCHANGED sideVars

\* Step 4: report_generator.generate returned.
ReportGenerated ==
    /\ Completed(4)
    /\ UNCHANGED <<cosmos, mode, hpc, step, consumed, calls, exc, failed_at,
                   job_years_num, hybrid_score, built, result, store,
                   response, stream, det_in, llm_in, hybrid_again>>
    /\ UNCHANGED fnVars
    /\ UNCHANGED sideVars

\* Resumed after the completed yield of a step below 4: the next step's
\* in_progress yield follows with no suspension in between.
NextStage ==
    /\ Resumable
    /\ gpc = "completed"
    /\ step < 4
    /\ events' = Append(events, Progress(step + 1, "in_progress"))
    /\ step' = step + 1
    /\ gpc' = "in_progress"
    /\ UNCHANGED <<cosmos, mode, hpc, consumed, calls, exc, failed_at,
                   job_years_num, hybrid_score, built, result, store,
                   response, stream, det_in, llm_in, hybrid_again>>
    /\ UNCHANGED fnVars
    /\ UNCHANGED sideVars

\* Resumed after the completed yield of step 4: _build_analysis_result
\* constructs the AnalysisResult and the generator yields the result chunk.
BuildResult ==
    /\ Resumable
    /\ gpc = "completed"
    /\ step = 4
    /\ ValidOverallScore(hybrid_score.final_score)
    /\ built' = [id |-> "uuid", overall_score |-> hybrid_score.final_score]
    /\ events' = Append(events, ResultEvent)
    /\ gpc' = "result"
    /\ UNCHANGED <<cosmos, mode, hpc, step, consumed, calls, exc, failed_at,
                   job_years_num, hybrid_score, result, store, response,
                   stream, det_in, llm_in, hybrid_again>>
    /\ UNCHANGED fnVars
    /\ UNCHANGED sideVars

\* The AnalysisResult constructor rejects an overall_score outside [0,100]
\* (pydantic ValidationError, a ValueError).
BuildRaise ==
    /\ Resumable
    /\ gpc = "completed"
    /\ step = 4
    /\ ~ValidOverallScore(hybrid_score.final_score)
    /\ gpc' = "failed"
    /\ exc' = "ValueError"
    /\ failed_at' = 5
    /\ UNCHANGED <<cosmos, mode, hpc, step, events, consumed, calls,
                   job_years_num, hybrid_score, built, result, store,
                   response, stream, det_in, llm_in, hybrid_again>>
    /\ UNCHANGED fnVars
    /\ UNCHANGED sideVars

\* Mutant of GenReturn: one more progress chunk is yielded after the result.
GenReturnExtra ==
    /\ Resumable
    /\ gpc = "result"
    /\ events' = Append(events, Progress(4, "completed"))
    /\ gpc' = "done"
    /\ UNCHANGED <<cosmos, mode, hpc, step, consumed, calls, exc,
                   failed_at, job_years_num, hybrid_score, built, result,
                   store, response, stream, det_in, llm_in, hybrid_again>>
    /\ UNCHANGED fnVars
    /\ UNCHANGED sideVars

\* Resumed after the result yield: the generator body ends.
GenReturn ==
    /\ Resumable
    /\ gpc = "result"
    /\ gpc' = "done"
    /\ UNCHANGED <<cosmos, mode, hpc, step, events, consumed, calls, exc,
                   failed_at, job_years_num, hybrid_score, built, result,
                   store, response, stream, det_in, llm_in, hybrid_again>>
    /\ UNCHANGED fnVars
    /\ UNCHANGED sideVars

Generator ==
    \/ GenStart
    \/ \E n \in 1..4 : StartCall(n)
    \/ ScoreRaise
    \/ \E n \in 1..4, kind \in FailKinds : StageFail(n, kind)
    \/ \E num \in BOOLEAN : JobParsed(num)
    \/ CVParsed
    \/ \E d \in DetSamples, sem \in LlmSamples, soft \in LlmSamples :
          Analyzed(d, sem, soft)
    \/ ReportGenerated
    \/ NextStage
    \/ BuildResult
    \/ BuildRaise
    \/ GenReturn

-----------------------------------------------------------------------------
(* CVCheckerOrchestrator.execute: the consumer behind POST /api/v1/analyze *)

\* Body of the `async for`: keep the data of a result chunk, drop the rest.
ExecuteLoop ==
    /\ mode = "api"
    /\ hpc = "service"
    /\ consumed < Len(events)
    /\ consumed' = consumed + 1
    /\ result' = IF events[consumed + 1].type = "result" THEN built ELSE result
    /\ UNCHANGED <<cosmos, mode, hpc, gpc, step, events, calls, exc,
                   failed_at, job_years_num, hybrid_score, built, store,
                   response, stream, det_in, llm_in, hybrid_again>>
    /\ UNCHANGED fnVars
    /\ UNCHANGED sideVars

-----------------------------------------------------------------------------
(* main.analyze_cv (POST /api/v1/analyze) and CVCheckerService.analyze_cv *)

AnalysisDoc(id, by) == [kind |-> "analysis", id |-> id, by |-> by]

CVDoc == [kind |-> "cv", id |-> "cv-uuid", by |-> "create_cv"]

JobDoc == [kind |-> "job", id |-> "job-uuid", by |-> "create_job"]

\* HTTP status main.analyze_cv maps an exception to.
StatusOf(e) == IF e = "ValueError" THEN 400 ELSE 500

\* str(e) of the ValueError a run raises when it fails at stage n: the
\* message each agent builds for a response that is not well-formed JSON, and
\* pydantic's message when the AnalysisResult is refused after stage 4.
MessageOf(n) ==
    CASE n = 1 -> "Invalid JSON response from JobParser agent"
      [] n = 2 -> "Invalid JSON response from CVParser agent"
      [] n = 3 -> "Invalid JSON from LLM validator"
      [] n = 4 -> "Invalid JSON from ReportGenerator"
      [] OTHER -> "1 validation error for AnalysisResult"

\* The detail of the HTTPException: str(e) for a ValueError, one fixed message
\* for every other exception.
ErrorResponse(e) ==
    [status |-> StatusOf(e), analysis_id |-> "", overall_score |-> -1,
     message |-> IF e = "ValueError" THEN MessageOf(failed_at)
                 ELSE "Failed to complete CV analysis"]

HandlerStart ==
    /\ mode = "api"
    /\ hpc = "idle"
    /\ hpc' = IF cosmos THEN "create_cv" ELSE "service"
    /\ UNCHANGED <<cosmos, mode, store, response>>
    /\ UNCHANGED pipeVars
    /\ UNCHANGED studyVars
    /\ UNCHANGED fnVars
    /\ UNCHANGED sideVars

\* cosmos_repository.create_cv inside the handler's first try block; when it
\* raises, the except clause logs a warning and create_job is skipped too.
CreateCV(ok) ==
    /\ hpc = "create_cv"
    /\ IF ok
       THEN store' = Append(store, CVDoc) /\ hpc' = "create_job"
       ELSE store' = store /\ hpc' = "service"
    /\ UNCHANGED <<cosmos, mode, response>>
    /\ UNCHANGED pipeVars
    /\ UNCHANGED studyVars
    /\ UNCHANGED fnVars
    /\ UNCHANGED sideVars

\* cosmos_repository.create_job, same try block.
CreateJob(ok) ==
    /\ hpc = "create_job"
    /\ store' = IF ok THEN Append(store, JobDoc) ELSE store
    /\ hpc' = "service"
    /\ UNCHANGED <<cosmos, mode, response>>
    /\ UNCHANGED pipeVars
    /\ UNCHANGED studyVars
    /\ UNCHANGED fnVars
    /\ UNCHANGED sideVars

\* orchestrator.execute returned its result to CVCheckerService.analyze_cv.
ExecuteReturn ==
    /\ mode = "api"
    /\ hpc = "service"
    /\ gpc = "done"
    /\ hpc' = "save"
    /\ UNCHANGED <<cosmos, mode, store, response>>
    /\ UNCHANGED pipeVars
    /\ UNCHANGED studyVars
    /\ UNCHANGED fnVars
    /\ UNCHANGED sideVars

\* Mutant of ExecuteRaise: the service saves in a finally block, so a
\* document is written for a failed run too.
ExecuteRaiseSaving ==
    /\ mode = "api"
    /\ hpc = "service"
    /\ gpc = "failed"
    /\ response' = ErrorResponse(exc)
    /\ store' = IF cosmos THEN Append(store, AnalysisDoc(result.id, "save"))
                ELSE store
    /\ hpc' = "done"
    /\ UNCHANGED <<cosmos, mode>>
    /\ UNCHANGED pipeVars
    /\ UNCHANGED studyVars
    /\ UNCHANGED fnVars
    /\ UNCHANGED sideVars

\* The generator raised: execute and the service re-raise, the handler maps
\* ValueError to 400 and every other exception to 500.
ExecuteRaise ==
    /\ mode = "api"
    /\ hpc = "service"
    /\ gpc = "failed"
    /\ response' = ErrorResponse(exc)
    /\ hpc' = "done"
    /\ UNCHANGED <<cosmos, mode, store>>
    /\ UNCHANGED pipeVars
    /\ UNCHANGED studyVars
    /\ UNCHANGED fnVars
    /\ UNCHANGED sideVars

\* CVCheckerService.analyze_cv: analysis_id = await self.repository.save(result).
\* get_repository hands the service the Cosmos repository when it is
\* configured (save creates a document under result.id and may raise) and an
\* InMemoryAnalysisRepository otherwise (save is a no-op that cannot fail).
Save(ok) ==
    /\ hpc = "save"
    /\ IF cosmos
       THEN IF ok
            THEN /\ store' = Append(store, AnalysisDoc(result.id, "save"))
                 /\ hpc' = "create_analysis"
                 /\ response' = response
            ELSE /\ store' = store
                 /\ hpc' = "done"
                 /\ response' = ErrorResponse("CosmosHttpResponseError")
       ELSE /\ ok
            /\ store' = store
            /\ hpc' = "respond"
            /\ response' = response
    /\ UNCHANGED <<cosmos, mode>>
    /\ UNCHANGED pipeVars
    /\ UNCHANGED studyVars
    /\ UNCHANGED fnVars
    /\ UNCHANGED sideVars

\* main.analyze_cv: cosmos_repository.create_analysis in its own try block;
\* on success the result takes the new document's id, a failure is logged.
CreateAnalysis(ok) ==
    /\ hpc = "create_analysis"
    /\ IF ok
       THEN /\ store' = Append(store,
                               AnalysisDoc("analysis-uuid", "create_analysis"))
            /\ result' = [result EXCEPT !.id = "analysis-uuid"]
       ELSE /\ store' = store
            /\ result' = result
    /\ hpc' = "respond"
    /\ UNCHANGED <<cosmos, mode, response, gpc, step, events, consumed, calls,
                   exc, failed_at, job_years_num, hybrid_score, built, stream>>
    /\ UNCHANGED studyVars
    /\ UNCHANGED fnVars
    /\ UNCHANGED sideVars

\* main.analyze_cv: the AnalyzeResponse is built and returned (HTTP 200).
Respond ==
    /\ hpc = "respond"
    /\ response' = [status |-> 200, analysis_id |-> result.id,
                    overall_score |-> result.overall_score, message |-> ""]
    /\ hpc' = "done"
    /\ UNCHANGED <<cosmos, mode, store>>
    /\ UNCHANGED pipeVars
    /\ UNCHANGED studyVars
    /\ UNCHANGED fnVars
    /\ UNCHANGED sideVars

\* The client of POST /api/v1/analyze disconnects or gives up waiting while
\* its request is being handled.  analyze_cv never looks at the connection
\* and sets no timeout, so nothing in the handler, the service or the
\* orchestrator changes.
Disconnect ==
    /\ mode = "api"
    /\ hpc \notin {"idle", "done"}
    /\ ~caller.gone
    /\ caller' = [gone |-> TRUE, events |-> Len(events), calls |-> Len(calls)]
    /\ UNCHANGED <<cosmos, mode, hpc, store, response>>
    /\ UNCHANGED pipeVars
    /\ UNCHANGED studyVars
    /\ UNCHANGED fnVars
    /\ UNCHANGED <<scraper, runs>>

Handler ==
    \/ HandlerStart
    \/ \E ok \in BOOLEAN : CreateCV(ok)
    \/ \E ok \in BOOLEAN : CreateJob(ok)
    \/ ExecuteReturn
    \/ ExecuteRaise
    \/ \E ok \in BOOLEAN : Save(ok)
    \/ \E ok \in BOOLEAN : CreateAnalysis(ok)
    \/ Respond
    \/ Disconnect

-----------------------------------------------------------------------------
(* The streaming endpoint POST /api/v1/analyze/stream: it forwards every    *)
(* chunk of execute_with_progress to the client and turns an exception of  *)
(* the generator into one closing `error` chunk.                           *)

StreamStart ==
    /\ mode = "stream"
    /\ hpc = "idle"
    /\ hpc' = "streaming"
    /\ UNCHANGED <<cosmos, mode, store, response>>
    /\ UNCHANGED pipeVars
    /\ UNCHANGED studyVars
    /\ UNCHANGED fnVars
    /\ UNCHANGED sideVars

StreamForward ==
    /\ mode = "stream"
    /\ hpc = "streaming"
    /\ consumed < Len(events)
    /\ consumed' = consumed + 1
    /\ stream' = Append(stream, events[consumed + 1])
    /\ UNCHANGED <<cosmos, mode, hpc, gpc, step, events, calls, exc,
                   failed_at, job_years_num, hybrid_score, built, result,
                   store, response, det_in, llm_in, hybrid_again>>
    /\ UNCHANGED fnVars
    /\ UNCHANGED sideVars

StreamError ==
    /\ mode = "stream"
    /\ hpc = "streaming"
    /\ gpc = "failed"
    /\ stream' = Append(stream, ErrorEvent)
    /\ hpc' = "done"
    /\ UNCHANGED <<cosmos, mode, gpc, step, events, consumed, calls, exc,
                   failed_at, job_years_num, hybrid_score, built, result,
                   store, response, det_in, llm_in, hybrid_again>>
    /\ UNCHANGED fnVars
    /\ UNCHANGED sideVars

StreamClose ==
    /\ mode = "stream"
    /\ hpc = "streaming"
    /\ gpc = "done"
    /\ hpc' = "done"
    /\ UNCHANGED <<cosmos, mode, store, response>>
    /\ UNCHANGED pipeVars
    /\ UNCHANGED studyVars
    /\ UNCHANGED fnVars
    /\ UNCHANGED sideVars

\* The client of the streaming endpoint goes away: the task that iterates
\* the generator is cancelled, so the generator is finished where it was
\* suspended (CancelledError and GeneratorExit pass `except Exception`).
StreamDisconnect ==
    /\ mode = "stream"
    /\ hpc = "streaming"
    /\ gpc \notin {"failed", "done"}
    /\ ~caller.gone
    /\ caller' = [gone |-> TRUE, events |-> Len(events), calls |-> Len(calls)]
    /\ gpc' = "cancelled"
    /\ hpc' = "done"
    /\ UNCHANGED <<cosmos, mode, step, events, consumed, calls, exc,
                   failed_at, job_years_num, hybrid_score, built, result,
                   store, response, stream, det_in, llm_in, hybrid_again>>
    /\ UNCHANGED fnVars
    /\ UNCHANGED <<scraper, runs>>

StreamEndpoint ==
    \/ StreamStart
    \/ StreamForward
    \/ StreamError
    \/ StreamClose
    \/ StreamDisconnect

-----------------------------------------------------------------------------
(* Specification of one request *)

Next ==
    \/ Generator
    \/ ExecuteLoop
    \/ Handler
    \/ StreamEndpoint

Spec == Init /\ [][Next]_vars

-----------------------------------------------------------------------------
(* Scoring study: HybridScoringAgent.analyze applied, twice, to totals     *)
(* drawn from the two-decimal values of [0,100].                           *)

\* Deterministic totals of the study: every 2.50 from 0.0 to 100.0, and
\* 33.3, 66.65, 66.7, 83.35 and 99.99.
DetStudy ==
    {d \in 0..10000 : d % 250 = 0} \cup {3330, 6665, 6670, 8335, 9999}

\* Semantic totals of the study: every two-decimal value of [0,100].
LlmStudy == 0..10000

InitStudy ==
    /\ cosmos = FALSE
    /\ mode = "study"
    /\ hpc = "study"
    /\ gpc = "init"
    /\ step = 0
    /\ events = <<>>
    /\ consumed = 0
    /\ calls = <<>>
    /\ exc = "none"
    /\ failed_at = 0
    /\ job_years_num = TRUE
    /\ hybrid_score = NoScore
    /\ built = NoResult
    /\ result = NoResult
    /\ store = <<>>
    /\ response = NoResponse
    /\ stream = <<>>
    /\ det_in \in DetStudy
    /\ llm_in \in LlmStudy
    /\ hybrid_again = NoScore
    /\ fn = "none"
    /\ args = <<>>
    /\ ret = <<>>
    /\ phase = 0
    /\ caller = Waiting
    /\ scraper = <<>>
    /\ runs = <<>>

\* analyzer.analyze on the drawn totals.
StudyAnalyze ==
    /\ mode = "study"
    /\ hybrid_score = NoScore
    /\ hybrid_score' = Analyze(det_in, llm_in)
    /\ UNCHANGED <<cosmos, mode, hpc, gpc, step, events, consumed, calls, exc,
                   failed_at, job_years_num, built, result, store, response,
                   stream, det_in, llm_in, hybrid_again>>
    /\ UNCHANGED fnVars
    /\ UNCHANGED sideVars

\* analyzer.analyze once more on the same totals.
StudyAnalyzeAgain ==
    /\ mode = "study"
    /\ hybrid_score # NoScore
    /\ hybrid_again = NoScore
    /\ hybrid_again' = Analyze(det_in, llm_in)
    /\ UNCHANGED <<cosmos, mode, hpc, gpc, step, events, consumed, calls, exc,
                   failed_at, job_years_num, hybrid_score, built, result,
                   store, response, stream, det_in, llm_in>>
    /\ UNCHANGED fnVars
    /\ UNCHANGED sideVars

NextStudy ==
    \/ StudyAnalyze
    \/ StudyAnalyzeAgain

SpecHybrid == InitStudy /\ [][NextStudy]_vars

-----------------------------------------------------------------------------
(* Functions studied on their own: the arguments are drawn in the initial  *)
(* state, the function is applied to them, and no request is in progress.  *)

restVars == <<cosmos, mode, hpc, gpc, step, events, consumed, calls, exc,
              failed_at, job_years_num, hybrid_score, built, result, store,
              response, stream, det_in, llm_in, hybrid_again>>

\* No request and no scoring study is in progress.
IdleRequest ==
    /\ cosmos = FALSE
    /\ mode = "study"
    /\ hpc = "study"
    /\ gpc = "init"
    /\ step = 0
    /\ events = <<>>
    /\ consumed = 0
    /\ calls = <<>>
    /\ exc = "none"
    /\ failed_at = 0
    /\ job_years_num = TRUE
    /\ hybrid_score = NoScore
    /\ built = NoResult
    /\ result = NoResult
    /\ store = <<>>
    /\ response = NoResponse
    /\ stream = <<>>
    /\ det_in = 0
    /\ llm_in = 0
    /\ hybrid_again = NoScore

\* Nothing but the function under study is in progress.
Idle ==
    /\ IdleRequest
    /\ caller = Waiting
    /\ scraper = <<>>
    /\ runs = <<>>

\* A key of a parsed JSON object, or an optional argument: <<>> when the key
\* is absent (or the value is None), <<v>> when it holds v.
Opt(S) == {<<>>} \cup {<<v>> : v \in S}

\* dict.get(key, default)
Get(o, default) == IF o = <<>> THEN default ELSE o[1]

-----------------------------------------------------------------------------
(* LLMSemanticValidator.validate_and_score on the parsed response *)

\* Percentages the completion capability may put in its response, in
\* hundredths: -50, 0, 62.5, 87.49, 100, 100.08 and 250.
PercentSamples == {-5000, 0, 6250, 8749, 10000, 10008, 25000}

\* The LLMScore built from the parsed response: both percentages as given
\* (round(x, 2), 0 when the key is absent) and their weighted total.
ValidateAndScore(parsed) ==
    LET sem  == Get(parsed.semantic_match_percent, 0)
        soft == Get(parsed.soft_skills_match_percent, 0)
    IN  [semantic_match_percent    |-> RoundHalfEven(sem, 1),
         soft_skills_match_percent |-> RoundHalfEven(soft, 1),
         total_score               |-> LlmTotal(sem, soft)]

InitLlm ==
    /\ Idle
    /\ fn = "validate_and_score"
    /\ args \in [semantic_match_percent    : Opt(PercentSamples),
                 soft_skills_match_percent : Opt(PercentSamples)]
    /\ ret = <<>>
    /\ phase = 0

ApplyValidateAndScore ==
    /\ fn = "validate_and_score"
    /\ phase = 0
    /\ ret' = ValidateAndScore(args)
    /\ phase' = 1
    /\ UNCHANGED <<fn, args>>
    /\ UNCHANGED restVars
    /\ UNCHANGED sideVars

NextLlm == ApplyValidateAndScore

SpecLlm == InitLlm /\ [][NextLlm]_vars

-----------------------------------------------------------------------------
(* The recommendations of an AnalysisResult: format_recommendations_as_list *)
(* and the padding and truncation of _build_analysis_result.  A formatted   *)
(* string is the sequence of its parts.                                     *)

\* Most recommendations, and most quick wins, a report holds in the study.
MaxRecommendations == 12

MaxQuickWins == 3

\* Recommendation objects of a report: a complete one, and one that has
\* neither priority nor rationale.
RecSamples ==
    {[priority |-> <<"HIGH">>, recommendation |-> <<"Learn FastAPI">>,
      rationale |-> <<"required skill">>],
     [priority |-> <<>>, recommendation |-> <<"Learn FastAPI">>,
      rationale |-> <<>>]}

\* n copies of x
Repeat(x, n) == [i \in 1..n |-> x]

\* report_data as ReportGeneratorAgent.generate returns it: the key
\* "recommendations" is always there, "quick_wins" may be absent.
ReportSamples ==
    {[recommendations |-> Repeat(rec, n), quick_wins |-> q] :
        rec \in RecSamples,
        n \in 0..MaxRecommendations,
        q \in Opt({Repeat("Add keywords", m) : m \in 0..MaxQuickWins})}

\* f"[{priority}] {text}", then f" - {rationale}" when there is a rationale
FormatRecommendation(rec) ==
    LET priority  == Get(rec.priority, "MEDIUM")
        text      == Get(rec.recommendation, "")
        rationale == Get(rec.rationale, "")
        formatted == <<"[", priority, "] ", text>>
    IN  IF rationale # "" THEN formatted \o <<" - ", rationale>>
        ELSE formatted

\* ReportGeneratorAgent.format_recommendations_as_list
FormatRecommendationsAsList(report_data) ==
    LET recs == report_data.recommendations
        wins == Get(report_data.quick_wins, <<>>)
    IN  [i \in 1..Len(recs) |-> FormatRecommendation(recs[i])]
        \o [i \in 1..Len(wins) |-> <<"[QUICK WIN] ", wins[i]>>]

\* Mutant of PadRecommendations: the list is left as it is.
PadRecommendationsNot(list) == list

\* while len(recommendations_list) < 5: append the stock recommendation
RECURSIVE PadRecommendations(_)
PadRecommendations(list) ==
    IF Len(list) < 5
    THEN PadRecommendations(
             Append(list,
                    <<"Continue developing skills aligned with career goals">>))
    ELSE list

\* recommendations_list[:10]
TruncateRecommendations(list) ==
    IF Len(list) > 10 THEN SubSeq(list, 1, 10) ELSE list

InitRecs ==
    /\ Idle
    /\ fn = "recommendations"
    /\ args \in ReportSamples
    /\ ret = <<>>
    /\ phase = 0

\* _build_analysis_result calls format_recommendations_as_list(report_data)
FormatRecs ==
    /\ fn = "recommendations"
    /\ phase = 0
    /\ ret' = FormatRecommendationsAsList(args)
    /\ phase' = 1
    /\ UNCHANGED <<fn, args>>
    /\ UNCHANGED restVars
    /\ UNCHANGED sideVars

\* _build_analysis_result pads the list and hands its first ten entries to
\* AnalysisResult.
AssembleRecs ==
    /\ fn = "recommendations"
    /\ phase = 1
    /\ ret' = TruncateRecommendations(PadRecommendations(ret))
    /\ phase' = 2
    /\ UNCHANGED <<fn, args>>
    /\ UNCHANGED restVars
    /\ UNCHANGED sideVars

NextRecs ==
    \/ FormatRecs
    \/ AssembleRecs

SpecRecs == InitRecs /\ [][NextRecs]_vars

-----------------------------------------------------------------------------
(* DeterministicScorer.calculate_skill_match.  A skill name is the sequence *)
(* of its characters, so that lower() and strip() do what they do.         *)

\* Most names a skill list holds in the study.
MaxSkills == 2

\* Skill names the extractors may return: "", " ", "Python", "python",
\* " python ", "FastAPI", "fastapi" and "Django".
RawNames ==
    {<<>>,
     <<" ">>,
     <<"P", "y", "t", "h", "o", "n">>,
     <<"p", "y", "t", "h", "o", "n">>,
     <<" ", "p", "y", "t", "h", "o", "n", " ">>,
     <<"F", "a", "s", "t", "A", "P", "I">>,
     <<"f", "a", "s", "t", "a", "p", "i">>,
     <<"D", "j", "a", "n", "g", "o">>}

\* Lists of at most n elements of S
SeqsUpTo(S, n) == UNION {[1..k -> S] : k \in 0..n}

SkillLists == SeqsUpTo(RawNames, MaxSkills)

\* str.lower(), on the letters that occur in RawNames
LowerChar(c) ==
    CASE c = "A" -> "a"
      [] c = "C" -> "c"
      [] c = "D" -> "d"
      [] c = "E" -> "e"
      [] c = "F" -> "f"
      [] c = "I" -> "i"
      [] c = "N" -> "n"
      [] c = "O" -> "o"
      [] c = "P" -> "p"
      [] c = "R" -> "r"
      [] OTHER -> c

Lower(s) == [i \in 1..Len(s) |-> LowerChar(s[i])]

\* str.strip(): leading and trailing whitespace removed
RECURSIVE LStrip(_)
LStrip(s) == IF s # <<>> /\ Head(s) = " " THEN LStrip(Tail(s)) ELSE s

RECURSIVE RStrip(_)
RStrip(s) ==
    IF s # <<>> /\ s[Len(s)] = " " THEN RStrip(SubSeq(s, 1, Len(s) - 1))
    ELSE s

Strip(s) == RStrip(LStrip(s))

\* Mutant of NormalizedSkills: the names are trimmed but keep their case.
NormalizedSkillsCased(skills) ==
    {Strip(skills[i]) : i \in {j \in 1..Len(skills) : skills[j] # <<>>}}

\* {s.lower().strip() for s in skills if s}: the empty string is dropped
\* before it is normalized, a name of blanks is not.
NormalizedSkills(skills) ==
    {Strip(Lower(skills[i])) : i \in {j \in 1..Len(skills) : skills[j] # <<>>}}

\* Mutant of CalculateSkillMatch: an empty requirement matches nothing.
CalculateSkillMatchNoVacuous(required_skills, candidate_skills) ==
    LET required_normalized  == NormalizedSkills(required_skills)
        candidate_normalized == NormalizedSkills(candidate_skills)
        matched == required_normalized \cap candidate_normalized
        missing == required_normalized \ candidate_normalized
    IN  IF required_normalized = {}
        THEN [match_percent |-> [num |-> 0, den |-> 1],
              matched |-> {}, missing |-> {}]
        ELSE [match_percent |->
                  [num |-> Cardinality(matched) * 100,
                   den |-> Cardinality(required_normalized)],
              matched |-> matched, missing |-> missing]

\* calculate_skill_match.  match_percent is the exact fraction num/den; the
\* two returned lists are built from sets and are kept as sets (the order of
\* list(set) is not fixed by the code).
CalculateSkillMatch(required_skills, candidate_skills) ==
    LET required_normalized  == NormalizedSkills(required_skills)
        candidate_normalized == NormalizedSkills(candidate_skills)
        matched == required_normalized \cap candidate_normalized
        missing == required_normalized \ candidate_normalized
    IN  IF required_normalized = {}
        THEN [match_percent |-> [num |-> 100, den |-> 1],
              matched |-> {}, missing |-> {}]
        ELSE [match_percent |->
                  [num |-> Cardinality(matched) * 100,
                   den |-> Cardinality(required_normalized)],
              matched |-> matched, missing |-> missing]

InitSkill ==
    /\ Idle
    /\ fn = "calculate_skill_match"
    /\ args \in [required_skills : SkillLists, candidate_skills : SkillLists]
    /\ ret = <<>>
    /\ phase = 0

ApplySkillMatch ==
    /\ fn = "calculate_skill_match"
    /\ phase = 0
    /\ ret' = CalculateSkillMatch(args.required_skills, args.candidate_skills)
    /\ phase' = 1
    /\ UNCHANGED <<fn, args>>
    /\ UNCHANGED restVars
    /\ UNCHANGED sideVars

NextSkill == ApplySkillMatch

SpecSkill == InitSkill /\ [][NextSkill]_vars

-----------------------------------------------------------------------------
(* calculate_skill_match applied to a pair of lists and to variants of them *)

\* Lists that differ from skills only in the letter case and the leading
\* and trailing whitespace of their names, or in names repeated.
Variants(skills) ==
    {v \in SkillLists :
        {Strip(Lower(v[i])) : i \in 1..Len(v)}
            = {Strip(Lower(skills[i])) : i \in 1..Len(skills)}}

InitSkillVariant ==
    /\ Idle
    /\ fn = "calculate_skill_match, variants"
    /\ args \in [required_skills : SkillLists, candidate_skills : SkillLists]
    /\ ret = <<>>
    /\ phase = 0

\* Two calls: one on the drawn lists, one on variants of them.
ApplySkillMatchToVariants ==
    /\ fn = "calculate_skill_match, variants"
    /\ phase = 0
    /\ \E rv \in Variants(args.required_skills),
          cv \in Variants(args.candidate_skills) :
          ret' = [required_variant  |-> rv,
                  candidate_variant |-> cv,
                  first  |-> CalculateSkillMatch(args.required_skills,
                                                 args.candidate_skills),
                  second |-> CalculateSkillMatch(rv, cv)]
    /\ phase' = 1
    /\ UNCHANGED <<fn, args>>
    /\ UNCHANGED restVars
    /\ UNCHANGED sideVars

NextSkillVariant == ApplySkillMatchToVariants

SpecSkillVariant == InitSkillVariant /\ [][NextSkillVariant]_vars

-----------------------------------------------------------------------------
(* DeterministicScorer.calculate_experience_alignment.  Years are counted  *)
(* in half years (11 is 5.5 years); a percentage is the exact fraction     *)
(* num/den with den > 0.                                                   *)

\* Most years a job requires in the study, in whole years.
MaxRequiredYears == 6

\* Most experience a candidate has in the study, in half years.
MaxCandidateHalfYears == 24

\* required_years as job extraction hands it over: a whole number of years.
\* Nothing between the response and the scorer checks its sign.
RequiredYears == {2 * y : y \in -1..MaxRequiredYears}

\* total_years_experience as CV extraction hands it over, from -2 years up.
CandidateYears == -4..MaxCandidateHalfYears

\* n/d with a positive denominator
Frac(n, d) == IF d < 0 THEN [num |-> -n, den |-> -d] ELSE [num |-> n, den |-> d]

\* max(lo, f) for a whole number lo
FracMax(lo, f) ==
    IF f.num < lo * f.den THEN [num |-> lo * f.den, den |-> f.den] ELSE f

\* Mutant of CalculateExperienceAlignment: the penalty for experience beyond
\* twice the requirement has no floor.
CalculateExperienceAlignmentNoFloor(required_years, candidate_years) ==
    LET r == Get(required_years, 0)
        c == Get(candidate_years, 0)
    IN  IF c >= r
        THEN IF c <= r * 2
             THEN [raised |-> "none", alignment |-> Frac(100, 1), gaps |-> {}]
             ELSE [raised |-> "none",
                   alignment |-> Frac(200 - (c - r * 2) * 2, 2),
                   gaps |-> {[key |-> "over_qualified", years |-> c - r]}]
        ELSE IF r = 0
             THEN [raised |-> "ZeroDivisionError",
                   alignment |-> Frac(0, 1), gaps |-> {}]
             ELSE [raised |-> "none",
                   alignment |-> FracMax(0, Frac(100 * r - (r - c) * 100, r)),
                   gaps |-> {[key |-> "under_qualified", years |-> r - c]}]

\* calculate_experience_alignment on optional years (None is <<>>).  The
\* result names the exception raised, if any; a gap annotation is its key
\* and the number of years its text reports.
CalculateExperienceAlignment(required_years, candidate_years) ==
    LET r == Get(required_years, 0)
        c == Get(candidate_years, 0)
    IN  IF c >= r
        THEN IF c <= r * 2
             THEN [raised |-> "none", alignment |-> Frac(100, 1), gaps |-> {}]
             ELSE [raised |-> "none",
                   alignment |->
                       FracMax(90, Frac(200 - (c - r * 2) * 2, 2)),
                   gaps |-> {[key |-> "over_qualified", years |-> c - r]}]
        ELSE IF r = 0
             THEN [raised |-> "ZeroDivisionError",
                   alignment |-> Frac(0, 1), gaps |-> {}]
             ELSE [raised |-> "none",
                   alignment |-> FracMax(0, Frac(100 * r - (r - c) * 100, r)),
                   gaps |-> {[key |-> "under_qualified", years |-> r - c]}]

InitExperience ==
    /\ Idle
    /\ fn = "calculate_experience_alignment"
    /\ args \in [required_years  : Opt(RequiredYears),
                 candidate_years : Opt(CandidateYears)]
    /\ ret = <<>>
    /\ phase = 0

ApplyExperienceAlignment ==
    /\ fn = "calculate_experience_alignment"
    /\ phase = 0
    /\ ret' = CalculateExperienceAlignment(args.required_years,
                                           args.candidate_years)
    /\ phase' = 1
    /\ UNCHANGED <<fn, args>>
    /\ UNCHANGED restVars
    /\ UNCHANGED sideVars

NextExperience == ApplyExperienceAlignment

SpecExperience == InitExperience /\ [][NextExperience]_vars

-----------------------------------------------------------------------------
(* DeterministicScorer.score on the two parsed records *)

\* Skill names of the score study: "Python", "FastAPI", "python", "Django".
ScoreNames ==
    {<<"P", "y", "t", "h", "o", "n">>,
     <<"F", "a", "s", "t", "A", "P", "I">>,
     <<"p", "y", "t", "h", "o", "n">>,
     <<"D", "j", "a", "n", "g", "o">>}

ScoreSkillLists == SeqsUpTo(ScoreNames, MaxSkills)

\* round(f, 2) of the fraction f of a percent, in hundredths
RoundPercent(f) == RoundHalfEven(100 * f.num, f.den)

\* The hundredths nearest to n/q: one, or two when n/q lies halfway.
Nearest(n, q) ==
    LET f == n \div q
        r == n % q
    IN  IF 2 * r < q THEN {f}
        ELSE IF 2 * r > q THEN {f + 1}
        ELSE {f, f + 1}

\* round(skill_match * 0.667 + exp_align * 0.333, 2), in hundredths.  The
\* sum is a floating-point number: where the exact sum lies halfway between
\* two hundredths (100 and 25 give 75.025) the rounding error of the sum
\* decides which of the two is returned, so both are possible here.
DetTotal(skill_match, exp_align) ==
    Nearest(667 * skill_match.num * exp_align.den
                + 333 * exp_align.num * skill_match.den,
            10 * skill_match.den * exp_align.den)

\* DeterministicScorer.score: the DeterministicScore it may return (one for
\* each possible total), or the exception calculate_experience_alignment
\* raised.  A key of either record may be absent; the two years may also
\* be None.
Score(job_requirements, candidate_profile) ==
    LET sm == CalculateSkillMatch(
                  Get(job_requirements.required_skills, <<>>),
                  Get(candidate_profile.skills, <<>>))
        ea == CalculateExperienceAlignment(
                  job_requirements.required_years,
                  candidate_profile.total_years_experience)
    IN  IF ea.raised # "none"
        THEN {[raised |-> ea.raised,
               skill_match_percent |-> 0,
               experience_alignment_percent |-> 0,
               total_score |-> 0,
               matched_skills |-> {},
               missing_skills |-> {},
               experience_gaps |-> {}]}
        ELSE {[raised |-> "none",
               skill_match_percent |-> RoundPercent(sm.match_percent),
               experience_alignment_percent |-> RoundPercent(ea.alignment),
               total_score |-> total,
               matched_skills |-> sm.matched,
               missing_skills |-> sm.missing,
               experience_gaps |-> ea.gaps] :
                  total \in DetTotal(sm.match_percent, ea.alignment)}

InitScore ==
    /\ Idle
    /\ fn = "score"
    /\ args \in [job_requirements :
                     [required_skills : Opt(ScoreSkillLists),
                      required_years  : Opt(RequiredYears)],
                 candidate_profile :
                     [skills : Opt(ScoreSkillLists),
                      total_years_experience : Opt(CandidateYears)]]
    /\ ret = <<>>
    /\ phase = 0

ApplyScore ==
    /\ fn = "score"
    /\ phase = 0
    /\ ret' \in Score(args.job_requirements, args.candidate_profile)
    /\ phase' = 1
    /\ UNCHANGED <<fn, args>>
    /\ UNCHANGED restVars
    /\ UNCHANGED sideVars

NextScore == ApplyScore

SpecScore == InitScore /\ [][NextScore]_vars

-----------------------------------------------------------------------------
(* Extraction: JobParserAgent.parse and CVParserAgent.parse on the response *)
(* text of the completion capability, followed by DeterministicScorer.score *)
(* as stage 3 of a run calls it.                                            *)

\* A key of a JSON object: absent, present with null, or present with value v
\* (dummy stands in the v of a key that has no value).
FieldSamples(values, dummy) ==
    {[st |-> "absent", v |-> dummy], [st |-> "null", v |-> dummy]}
        \cup {[st |-> "value", v |-> x] : x \in values}

Value(x) == [st |-> "value", v |-> x]

\* The keys used downstream, when the text is not a JSON object
NoJobFields ==
    [job_title       |-> [st |-> "absent", v |-> ""],
     required_skills |-> [st |-> "absent", v |-> <<>>],
     required_years  |-> [st |-> "absent", v |-> 0],
     role_type       |-> [st |-> "absent", v |-> ""]]

NoCVFields ==
    [skills                 |-> [st |-> "absent", v |-> <<>>],
     total_years_experience |-> [st |-> "absent", v |-> 0],
     work_experience        |-> [st |-> "absent", v |-> <<>>]]

\* Skill lists of the extraction study: [] and ["Python", "FastAPI"]
ExtractSkillLists ==
    {<<>>,
     << <<"P", "y", "t", "h", "o", "n">>,
        <<"F", "a", "s", "t", "A", "P", "I">> >>}

\* Response texts of the job extraction call: text that json.loads rejects,
\* a JSON array, or a JSON object with any of its keys absent or null.
JobResponses ==
    {[json |-> "malformed", fields |-> NoJobFields],
     [json |-> "array", fields |-> NoJobFields]}
        \cup {[json |-> "object", fields |-> f] :
                 f \in [job_title       : FieldSamples({"Engineer"}, ""),
                        required_skills : FieldSamples(ExtractSkillLists, <<>>),
                        required_years  : FieldSamples({0, 10}, 0),
                        role_type       : FieldSamples({"senior"}, "")]}

\* Response texts of the CV extraction call; the years are -1 or 6.
CVResponses ==
    {[json |-> "malformed", fields |-> NoCVFields],
     [json |-> "array", fields |-> NoCVFields]}
        \cup {[json |-> "object", fields |-> f] :
                 f \in [skills : FieldSamples(ExtractSkillLists, <<>>),
                        total_years_experience : FieldSamples({-2, 12}, 0),
                        work_experience : FieldSamples({<<"Acme">>}, <<>>)]}

\* if field not in parsed_data: parsed_data[field] = default
IfAbsent(field, default) == IF field.st = "absent" THEN default ELSE field

\* if field not in parsed_data or parsed_data.get(field) is None: ... = default
IfAbsentOrNull(field, default) == IF field.st = "value" THEN field ELSE default

\* JobParserAgent.parse after agent.run returned: the exception it raises, or
\* the dict it returns.  json.JSONDecodeError becomes ValueError; an array
\* fails at parsed_data[field] = None; a null required_skills fails at the
\* len() of the log line.
JobParse(response_text) ==
    IF response_text.json = "malformed"
    THEN [raised |-> "ValueError", data |-> NoJobFields]
    ELSE IF response_text.json = "array"
    THEN [raised |-> "TypeError", data |-> NoJobFields]
    ELSE LET f == response_text.fields
             parsed_data ==
                 [job_title       |-> IfAbsent(f.job_title,
                                               [st |-> "null", v |-> ""]),
                  required_skills |-> IfAbsent(f.required_skills, Value(<<>>)),
                  required_years  |-> IfAbsent(f.required_years, Value(0)),
                  role_type       |-> IfAbsent(f.role_type, Value("mid"))]
         IN  IF parsed_data.required_skills.st = "null"
             THEN [raised |-> "TypeError", data |-> NoJobFields]
             ELSE [raised |-> "none", data |-> parsed_data]

\* CVParserAgent.parse after agent.run returned.
CVParse(response_text) ==
    IF response_text.json = "malformed"
    THEN [raised |-> "ValueError", data |-> NoCVFields]
    ELSE IF response_text.json = "array"
    THEN [raised |-> "TypeError", data |-> NoCVFields]
    ELSE LET f == response_text.fields
         IN  [raised |-> "none",
              data |->
                 [skills |-> IfAbsentOrNull(f.skills, Value(<<>>)),
                  total_years_experience |->
                      IfAbsentOrNull(f.total_years_experience, Value(0)),
                  work_experience |->
                      IfAbsentOrNull(f.work_experience, Value(<<>>))]]

\* dict.get(key, default) hands over the value, None for null
ToOpt(field) == IF field.st = "value" THEN <<field.v>> ELSE <<>>

InitExtract ==
    /\ Idle
    /\ fn = "extraction"
    /\ args \in [job_response : JobResponses, cv_response : CVResponses]
    /\ ret = <<>>
    /\ phase = 0

\* Stage 1: job_parser.parse
ParseJob ==
    /\ fn = "extraction"
    /\ phase = 0
    /\ ret' = [job |-> JobParse(args.job_response)]
    /\ phase' = 1
    /\ UNCHANGED <<fn, args>>
    /\ UNCHANGED restVars
    /\ UNCHANGED sideVars

\* Stage 2: cv_parser.parse, reached when stage 1 did not raise
ParseCV ==
    /\ fn = "extraction"
    /\ phase = 1
    /\ ret.job.raised = "none"
    /\ ret' = [job |-> ret.job, cv |-> CVParse(args.cv_response)]
    /\ phase' = 2
    /\ UNCHANGED <<fn, args>>
    /\ UNCHANGED restVars
    /\ UNCHANGED sideVars

\* Stage 3 up to the deterministic score, reached when stage 2 did not raise
ScoreParsed ==
    /\ fn = "extraction"
    /\ phase = 2
    /\ ret.cv.raised = "none"
    /\ \E det \in Score(
              [required_skills |-> ToOpt(ret.job.data.required_skills),
               required_years  |-> ToOpt(ret.job.data.required_years)],
              [skills |-> ToOpt(ret.cv.data.skills),
               total_years_experience |->
                   ToOpt(ret.cv.data.total_years_experience)]) :
          ret' = [job |-> ret.job, cv |-> ret.cv, det |-> det]
    /\ phase' = 3
    /\ UNCHANGED <<fn, args>>
    /\ UNCHANGED restVars
    /\ UNCHANGED sideVars

NextExtract ==
    \/ ParseJob
    \/ ParseCV
    \/ ScoreParsed

SpecExtract == InitExtract /\ [][NextExtract]_vars

-----------------------------------------------------------------------------
(* Concurrent requests.  get_service builds a CVCheckerService, and with it *)
(* a CVCheckerOrchestrator and its four agents, for every request, around   *)
(* the one cached client; the attributes of these objects are assigned in   *)
(* __init__ only.  The runs are tasks of one event loop: a run executes     *)
(* without interruption from one await of an external call to the next.     *)
(* The answer of the completion capability is taken to depend on its prompt *)
(* only.                                                                     *)

RunIds == {1, 2}

\* Answers to the job extraction prompt of a run: malformed text, or the
\* object of an engineer's job that requires no skill or Python and FastAPI.
ConcurrentJobs ==
    {r \in JobResponses :
        \/ r.json = "malformed"
        \/ /\ r.json = "object"
           /\ r.fields.job_title = Value("Engineer")
           /\ r.fields.required_skills.st = "value"
           /\ r.fields.required_years = Value(10)
           /\ r.fields.role_type = Value("senior")}

\* Answers to the CV extraction prompt of a run
ConcurrentCVs ==
    {r \in CVResponses :
        \/ r.json = "malformed"
        \/ /\ r.json = "object"
           /\ r.fields.skills.st = "value"
           /\ r.fields.total_years_experience = Value(12)
           /\ r.fields.work_experience = Value(<<"Acme">>)}

ConcurrentInputs ==
    [job_response : ConcurrentJobs, cv_response : ConcurrentCVs]

\* The local variables of execute_with_progress, unassigned
EmptyFrame ==
    [job_requirements  |-> <<>>,
     candidate_profile |-> <<>>,
     hybrid_score      |-> <<>>,
     report_data       |-> <<>>]

\* A run that has not been started: pc is 0, then the stage whose external
\* call the run is suspended in, 5 after the result event, 6 after a raise.
NewRun(input) ==
    [input  |-> input,
     pc     |-> 0,
     events |-> <<>>,
     raised |-> "none",
     result |-> <<>>]

\* Mutant of FrameOf: the stage outputs are kept in one place for all runs.
FrameShared(r) == 1

\* Where run r keeps the outputs of its stages: job_requirements,
\* candidate_profile, hybrid_score and report_data are local variables of
\* its own invocation of execute_with_progress.
FrameOf(r) == r

\* The code between the start of the generator and the await of stage 1
StartRun(run) ==
    [run EXCEPT !.pc = 1, !.events = <<Progress(1, "in_progress")>>]

\* What stage n makes of the answer to its call, given the locals of the
\* run: the exception it raises and the locals afterwards.
StageOutput(n, input, frame) ==
    CASE n = 1 ->
           LET p == JobParse(input.job_response)
           IN  [raised |-> p.raised,
                frame  |-> [frame EXCEPT !.job_requirements = <<p.data>>]]
      [] n = 2 ->
           LET p == CVParse(input.cv_response)
           IN  [raised |-> p.raised,
                frame  |-> [frame EXCEPT !.candidate_profile = <<p.data>>]]
      [] n = 3 ->
           LET job == frame.job_requirements[1]
               cv  == frame.candidate_profile[1]
               m   == CalculateSkillMatch(
                          Get(ToOpt(job.required_skills), <<>>),
                          Get(ToOpt(cv.skills), <<>>))
           IN  [raised |-> "none",
                frame  |-> [frame EXCEPT !.hybrid_score = <<m>>]]
      [] OTHER ->
           [raised |-> "none",
            frame  |-> [frame EXCEPT !.report_data =
                           <<[answer_to |->
                                 <<frame.hybrid_score[1],
                                   frame.job_requirements[1],
                                   frame.candidate_profile[1]>>]>>]]

\* The code from the return of the call of stage run.pc to the next await,
\* or to the end of the generator: the run and its locals afterwards.
Resume(run, frame) ==
    LET n   == run.pc
        out == StageOutput(n, run.input, frame)
    IN  IF out.raised # "none"
        THEN [run   |-> [run EXCEPT !.pc = 6, !.raised = out.raised],
              frame |-> frame]
        ELSE IF n < 4
        THEN [run   |-> [run EXCEPT
                            !.pc = n + 1,
                            !.events = run.events
                                \o <<Progress(n, "completed"),
                                     Progress(n + 1, "in_progress")>>],
              frame |-> out.frame]
        ELSE [run   |-> [run EXCEPT
                            !.pc = 5,
                            !.events = run.events
                                \o <<Progress(4, "completed"), ResultEvent>>,
                            !.result =
                                <<[hybrid_score |-> out.frame.hybrid_score[1],
                                   report_data  |-> out.frame.report_data[1],
                                   role_type    |->
                                     out.frame.job_requirements[1].role_type]>>],
              frame |-> out.frame]

InitConcurrent ==
    /\ IdleRequest
    /\ fn = "concurrent runs"
    /\ args = <<>>
    /\ ret = <<>>
    /\ phase = 0
    /\ caller = Waiting
    /\ scraper = <<>>
    /\ \E inputs \in [RunIds -> ConcurrentInputs] :
          /\ \A r1, r2 \in RunIds : r1 # r2 => inputs[r1] # inputs[r2]
          /\ runs = [run   |-> [r \in RunIds |-> NewRun(inputs[r])],
                     frame |-> [r \in RunIds |-> EmptyFrame]]

\* The event loop starts the task of request r.
RunStarts(r) ==
    /\ fn = "concurrent runs"
    /\ runs.run[r].pc = 0
    /\ runs' = [runs EXCEPT !.run[r] = StartRun(runs.run[r])]
    /\ UNCHANGED fnVars
    /\ UNCHANGED restVars
    /\ UNCHANGED <<caller, scraper>>

\* The external call of run r returns and the event loop resumes the run.
RunResumes(r) ==
    /\ fn = "concurrent runs"
    /\ runs.run[r].pc \in 1..4
    /\ LET out == Resume(runs.run[r], runs.frame[FrameOf(r)])
       IN  runs' = [run   |-> [runs.run EXCEPT ![r] = out.run],
                    frame |-> [runs.frame EXCEPT ![FrameOf(r)] = out.frame]]
    /\ UNCHANGED fnVars
    /\ UNCHANGED restVars
    /\ UNCHANGED <<caller, scraper>>

NextConcurrent ==
    \/ \E r \in RunIds : RunStarts(r)
    \/ \E r \in RunIds : RunResumes(r)

SpecConcurrent == InitConcurrent /\ [][NextConcurrent]_vars

-----------------------------------------------------------------------------
(* LinkedInScraperService: one instance for the application (lifespan),     *)
(* holding one browser.  browser is "none" for self.browser = None,         *)
(* otherwise the state of the Browser object.  A call of                    *)
(* scrape_job_description is followed from await to await, so that the      *)
(* browser can go away in between; context and page are its locals.         *)

MaxScrapes == 3

ScrapeExits ==
    {"return", "PageLoadTimeout", "AntiBotDetected", "ContentNotFound",
     "LinkedInScraperError"}

\* LinkedInScraperService.__init__, no call in progress
NewScraper ==
    [browser         |-> "none",
     playwright      |-> FALSE,
     pc              |-> "idle",
     scrapes         |-> 0,
     ready_connected |-> FALSE,
     context         |-> "none",
     page            |-> "none",
     page_closes     |-> 0,
     context_closes  |-> 0,
     lost            |-> FALSE,
     pending         |-> "none",
     last            |-> "none",
     outcome         |-> "none"]

\* initialize(): returns at once when self.browser is set, whatever the
\* state of that browser; otherwise starts Playwright and launches a
\* browser, and raises LinkedInScraperError when that fails.
Initialize(s, launch_ok) ==
    IF s.browser # "none"
    THEN [raised |-> "none", s |-> s]
    ELSE IF launch_ok
    THEN [raised |-> "none",
          s |-> [s EXCEPT !.browser = "connected", !.playwright = TRUE]]
    ELSE [raised |-> "LinkedInScraperError",
          s |-> [s EXCEPT !.playwright = TRUE]]

\* close()
Close(s) ==
    [s EXCEPT !.browser = "none", !.playwright = FALSE]

\* Mutant of Cleanup: the page and the context are closed on success only.
CleanupOnSuccess(s) ==
    IF s.pending # "return"
    THEN s
    ELSE [s EXCEPT !.page = "closed", !.page_closes = s.page_closes + 1,
                   !.context = "closed",
                   !.context_closes = s.context_closes + 1]

\* The finally block of scrape_job_description:
\* if page and not page.is_closed(): await page.close()
\* if context: await context.close()
Cleanup(s) ==
    LET p == IF s.page = "open"
             THEN [s EXCEPT !.page = "closed",
                            !.page_closes = s.page_closes + 1]
             ELSE s
    IN  IF p.context # "none"
        THEN [p EXCEPT !.context = "closed",
                       !.context_closes = p.context_closes + 1]
        ELSE p

InitScraper ==
    /\ IdleRequest
    /\ fn = "LinkedInScraperService"
    /\ args = <<>>
    /\ ret = <<>>
    /\ phase = 0
    /\ caller = Waiting
    /\ runs = <<>>
    /\ scraper = NewScraper

\* lifespan startup, or any other direct call of initialize()
ScraperInitialize(launch_ok) ==
    /\ fn = "LinkedInScraperService"
    /\ scraper.pc = "idle"
    /\ scraper' = [Initialize(scraper, launch_ok).s EXCEPT
                      !.last = "initialize",
                      !.outcome =
                          IF Initialize(scraper, launch_ok).raised = "none"
                          THEN "initialized"
                          ELSE Initialize(scraper, launch_ok).raised]
    /\ UNCHANGED fnVars
    /\ UNCHANGED restVars
    /\ UNCHANGED <<caller, runs>>

\* lifespan shutdown, or any other call of close()
ScraperClose ==
    /\ fn = "LinkedInScraperService"
    /\ scraper.pc = "idle"
    /\ scraper' = [Close(scraper) EXCEPT !.last = "close",
                                           !.outcome = "closed"]
    /\ UNCHANGED fnVars
    /\ UNCHANGED restVars
    /\ UNCHANGED <<caller, runs>>

\* The browser process dies or its connection drops: the Browser object
\* stays in self.browser, is_connected() turns False, and the contexts and
\* pages of the browser are closed with it.
BrowserDisconnects ==
    /\ fn = "LinkedInScraperService"
    /\ scraper.browser = "connected"
    /\ scraper' = [scraper EXCEPT
                      !.browser = "disconnected",
                      !.lost = (scraper.lost \/ scraper.context = "open"),
                      !.context = IF scraper.context = "open"
                                  THEN "closed" ELSE scraper.context,
                      !.page = IF scraper.page = "open"
                               THEN "closed" ELSE scraper.page]
    /\ UNCHANGED fnVars
    /\ UNCHANGED restVars
    /\ UNCHANGED <<caller, runs>>

\* scrape_job_description up to its try block: the readiness check and the
\* call of initialize() it makes; a failure of initialize() leaves the call.
ScrapeBegin(launch_ok) ==
    /\ fn = "LinkedInScraperService"
    /\ scraper.pc = "idle"
    /\ scraper.scrapes < MaxScrapes
    /\ LET init == IF scraper.browser # "connected"
                   THEN Initialize(scraper, launch_ok)
                   ELSE [raised |-> "none", s |-> scraper]
           call == [init.s EXCEPT
                       !.scrapes = scraper.scrapes + 1,
                       !.context = "none",
                       !.page = "none",
                       !.page_closes = 0,
                       !.context_closes = 0,
                       !.lost = FALSE,
                       !.pending = "none",
                       !.last = "scrape"]
       IN  scraper' =
               IF init.raised # "none"
               THEN [call EXCEPT !.outcome = init.raised,
                                 !.ready_connected = FALSE]
               ELSE [call EXCEPT !.pc = "ready",
                                 !.outcome = "none",
                                 !.ready_connected =
                                     (init.s.browser = "connected")]
    /\ UNCHANGED fnVars
    /\ UNCHANGED restVars
    /\ UNCHANGED <<caller, runs>>

\* browser.new_context() and context.new_page(): opened is how many of the
\* two succeed; on a browser that is not connected neither does.  Their
\* exceptions are wrapped in LinkedInScraperError.
ScrapeOpen(opened) ==
    /\ fn = "LinkedInScraperService"
    /\ scraper.pc = "ready"
    /\ scraper.browser # "connected" => opened = 0
    /\ scraper' =
          CASE opened = 0 ->
                 [scraper EXCEPT !.pc = "finally",
                                 !.pending = "LinkedInScraperError"]
            [] opened = 1 ->
                 [scraper EXCEPT !.pc = "finally",
                                 !.context = "open",
                                 !.pending = "LinkedInScraperError"]
            [] OTHER ->
                 [scraper EXCEPT !.pc = "opened",
                                 !.context = "open",
                                 !.page = "open"]
    /\ UNCHANGED fnVars
    /\ UNCHANGED restVars
    /\ UNCHANGED <<caller, runs>>

\* page.goto, _is_anti_bot_page, _extract_job_description and the check of
\* the content: the call returns the text or raises; on a page that is
\* closed every Playwright call fails with an error that is not a timeout.
ScrapeWork(exit) ==
    /\ fn = "LinkedInScraperService"
    /\ scraper.pc = "opened"
    /\ scraper.page = "closed" => exit = "LinkedInScraperError"
    /\ scraper' = [scraper EXCEPT !.pc = "finally", !.pending = exit]
    /\ UNCHANGED fnVars
    /\ UNCHANGED restVars
    /\ UNCHANGED <<caller, runs>>

\* The finally block, then the return or the raise
ScrapeFinally ==
    /\ fn = "LinkedInScraperService"
    /\ scraper.pc = "finally"
    /\ scraper' = [Cleanup(scraper) EXCEPT
                      !.pc = "idle",
                      !.outcome = scraper.pending,
                      !.pending = "none"]
    /\ UNCHANGED fnVars
    /\ UNCHANGED restVars
    /\ UNCHANGED <<caller, runs>>

NextScraper ==
    \/ \E launch_ok \in BOOLEAN : ScraperInitialize(launch_ok)
    \/ ScraperClose
    \/ BrowserDisconnects
    \/ \E launch_ok \in BOOLEAN : ScrapeBegin(launch_ok)
    \/ \E opened \in 0..2 : ScrapeOpen(opened)
    \/ \E exit \in ScrapeExits : ScrapeWork(exit)
    \/ ScrapeFinally

SpecScraper == InitScraper /\ [][NextScraper]_vars

-----------------------------------------------------------------------------
(* HybridScoringAgent._compile_strengths and _compile_gaps.  A list entry  *)
(* is the sequence of the pieces its f-string puts together; the reasoning *)
(* and the cultural-fit notes are sequences of characters.                  *)

MaxMatched == 6

MaxTransferable == 4

MaxStrengths == 5

NamesShown == 5

TransferableShown == 3

ExcerptLength == 200

\* s[:n]
Take(s, n) == SubSeq(s, 1, IF Len(s) < n THEN Len(s) ELSE n)

\* sep.join(names), piece by piece
RECURSIVE Join(_, _)
Join(names, sep) ==
    IF Len(names) <= 1 THEN names
    ELSE <<Head(names), sep>> \o Join(Tail(names), sep)

\* A list of n skill names
NameList(n) == [i \in 1..n |-> ToString(i)]

\* A text of n characters, the first ExcerptLength of them "x"
TextOf(n) == [i \in 1..n |-> IF i <= ExcerptLength THEN "x" ELSE "y"]

\* bool(x) of an optional list or string: None and the empty one are falsy
Truthy(o) == o # <<>> /\ o[1] # <<>>

\* Mutant of CompileStrengths: the excerpt of the reasoning is added
\* whenever there is a reasoning.
CompileStrengthsAlways(det_score, llm_score) ==
    LET a == IF det_score.matched_skills # <<>>
             THEN << <<"Strong match on ",
                       ToString(Len(det_score.matched_skills)),
                       " required skills: ">>
                     \o Join(Take(det_score.matched_skills, NamesShown),
                             ", ") >>
             ELSE <<>>
        b == IF det_score.experience_alignment_percent >= 9000
             THEN << <<"Excellent experience level alignment">> >>
             ELSE <<>>
        c == IF Truthy(llm_score.transferable_skills)
             THEN << <<"Transferable skills identified: ">>
                     \o Join(Take(llm_score.transferable_skills[1],
                                  TransferableShown), ", ") >>
             ELSE <<>>
        strengths == a \o b \o c
        d == IF Truthy(llm_score.reasoning)
             THEN <<Take(llm_score.reasoning[1], ExcerptLength)>>
             ELSE <<>>
    IN  Take(strengths \o d, MaxStrengths)

\* _compile_strengths
CompileStrengths(det_score, llm_score) ==
    LET a == IF det_score.matched_skills # <<>>
             THEN << <<"Strong match on ",
                       ToString(Len(det_score.matched_skills)),
                       " required skills: ">>
                     \o Join(Take(det_score.matched_skills, NamesShown),
                             ", ") >>
             ELSE <<>>
        b == IF det_score.experience_alignment_percent >= 9000
             THEN << <<"Excellent experience level alignment">> >>
             ELSE <<>>
        c == IF Truthy(llm_score.transferable_skills)
             THEN << <<"Transferable skills identified: ">>
                     \o Join(Take(llm_score.transferable_skills[1],
                                  TransferableShown), ", ") >>
             ELSE <<>>
        strengths == a \o b \o c
        d == IF Len(strengths) < 3 /\ Truthy(llm_score.reasoning)
             THEN <<Take(llm_score.reasoning[1], ExcerptLength)>>
             ELSE <<>>
    IN  Take(strengths \o d, MaxStrengths)

InitStrengths ==
    /\ Idle
    /\ fn = "_compile_strengths"
    /\ args \in
          [matched_skills : {NameList(n) : n \in 0..MaxMatched},
           experience_alignment_percent : {0, 8999, 9000, 10000},
           transferable_skills :
               Opt({NameList(n) : n \in 0..MaxTransferable}),
           reasoning :
               Opt({TextOf(n) : n \in {0, 1, ExcerptLength,
                                       ExcerptLength + 1}})]
    /\ ret = <<>>
    /\ phase = 0

ApplyCompileStrengths ==
    /\ fn = "_compile_strengths"
    /\ phase = 0
    /\ ret' = CompileStrengths(
                  [matched_skills |-> args.matched_skills,
                   experience_alignment_percent |->
                       args.experience_alignment_percent],
                  [transferable_skills |-> args.transferable_skills,
                   reasoning |-> args.reasoning])
    /\ phase' = 1
    /\ UNCHANGED <<fn, args>>
    /\ UNCHANGED restVars
    /\ UNCHANGED sideVars

NextStrengths == ApplyCompileStrengths

SpecStrengths == InitStrengths /\ [][NextStrengths]_vars

-----------------------------------------------------------------------------
(* HybridScoringAgent._compile_gaps *)

MaxMissing == 6

MaxGaps == 5

MissingShown == 5

NotesLength == 200

\* sub in s
Contains(s, sub) ==
    \E i \in 1..(Len(s) - Len(sub) + 1) :
        SubSeq(s, i, i + Len(sub) - 1) = sub

\* f"{years:.1f}" of a number of half years
OneDecimal(h) ==
    <<ToString(h \div 2), ".", IF h % 2 = 1 THEN "5" ELSE "0">>

\* experience_gaps as calculate_experience_alignment fills it: no entry, or
\* the one entry of its branch, the key with its description.
ExperienceGapSamples ==
    {<<>>,
     <<[key |-> "over_qualified",
        description |-> <<"Candidate has ">> \o OneDecimal(23)
                            \o <<" years beyond requirement">>]>>,
     <<[key |-> "under_qualified",
        description |-> <<"Missing ">> \o OneDecimal(4)
                            \o <<" years of experience">>]>>}

\* cultural_fit_notes: None, "", "fine", "Concern", "no CONCERNS", a text of
\* 200 characters followed by "concern", a text of 201 characters.
NotesSamples ==
    {<<>>,
     << <<>> >>,
     << <<"f", "i", "n", "e">> >>,
     << <<"C", "o", "n", "c", "e", "r", "n">> >>,
     << <<"n", "o", " ", "C", "O", "N", "C", "E", "R", "N", "S">> >>,
     << TextOf(NotesLength) \o <<"c", "o", "n", "c", "e", "r", "n">> >>,
     << TextOf(NotesLength + 1) >>}

\* Mutant of CompileGaps: 'concern' is looked for in the notes as they are.
CompileGapsCased(det_score, llm_score) ==
    LET a == IF det_score.missing_skills # <<>>
             THEN << <<"Missing ",
                       ToString(Len(det_score.missing_skills)),
                       " required skills: ">>
                     \o Join(Take(det_score.missing_skills, MissingShown),
                             ", ") >>
             ELSE <<>>
        b == [i \in 1..Len(det_score.experience_gaps) |->
                 det_score.experience_gaps[i].description]
        c == IF /\ Truthy(llm_score.cultural_fit_notes)
                /\ Contains(llm_score.cultural_fit_notes[1],
                            <<"c", "o", "n", "c", "e", "r", "n">>)
             THEN <<Take(llm_score.cultural_fit_notes[1], NotesLength)>>
             ELSE <<>>
    IN  Take(a \o b \o c, MaxGaps)

\* _compile_gaps
CompileGaps(det_score, llm_score) ==
    LET a == IF det_score.missing_skills # <<>>
             THEN << <<"Missing ",
                       ToString(Len(det_score.missing_skills)),
                       " required skills: ">>
                     \o Join(Take(det_score.missing_skills, MissingShown),
                             ", ") >>
             ELSE <<>>
        b == [i \in 1..Len(det_score.experience_gaps) |->
                 det_score.experience_gaps[i].description]
        c == IF /\ Truthy(llm_score.cultural_fit_notes)
                /\ Contains(Lower(llm_score.cultural_fit_notes[1]),
                            <<"c", "o", "n", "c", "e", "r", "n">>)
             THEN <<Take(llm_score.cultural_fit_notes[1], NotesLength)>>
             ELSE <<>>
    IN  Take(a \o b \o c, MaxGaps)

InitGaps ==
    /\ Idle
    /\ fn = "_compile_gaps"
    /\ args \in
          [missing_skills : {NameList(n) : n \in 0..MaxMissing},
           experience_gaps : ExperienceGapSamples,
           cultural_fit_notes : NotesSamples]
    /\ ret = <<>>
    /\ phase = 0

ApplyCompileGaps ==
    /\ fn = "_compile_gaps"
    /\ phase = 0
    /\ ret' = CompileGaps(
                  [missing_skills |-> args.missing_skills,
                   experience_gaps |-> args.experience_gaps],
                  [cultural_fit_notes |-> args.cultural_fit_notes])
    /\ phase' = 1
    /\ UNCHANGED <<fn, args>>
    /\ UNCHANGED restVars
    /\ UNCHANGED sideVars

NextGaps == ApplyCompileGaps

SpecGaps == InitGaps /\ [][NextGaps]_vars

-----------------------------------------------------------------------------
(* The skill_matches of an AnalysisResult: calculate_skill_match, then the  *)
(* two loops of _build_analysis_result over the lists it returned.          *)

MatchNames == ScoreNames \cup {<<>>, <<" ">>}

MatchSkillLists == SeqsUpTo(MatchNames, MaxSkills)

\* list(s) of a set s: its elements in an order the code does not fix
ListsOf(s) ==
    {l \in [1..Cardinality(s) -> s] :
        \A i, j \in 1..Cardinality(s) : i # j => l[i] # l[j]}

SkillMatch(skill, has) ==
    [skill_name        |-> skill,
     required          |-> TRUE,
     candidate_has     |-> has,
     proficiency_level |-> IF has THEN <<"present">> ELSE <<>>,
     years_experience  |-> <<>>,
     match_score       |-> IF has THEN 1 ELSE 0]

\* Mutant of BuildSkillMatches: the second loop is a copy of the first.
BuildSkillMatchesCopied(matched_skills, missing_skills) ==
    [i \in 1..Len(matched_skills) |-> SkillMatch(matched_skills[i], TRUE)]
        \o [i \in 1..Len(missing_skills) |->
               SkillMatch(missing_skills[i], TRUE)]

\* _build_analysis_result, skill_matches
BuildSkillMatches(matched_skills, missing_skills) ==
    [i \in 1..Len(matched_skills) |-> SkillMatch(matched_skills[i], TRUE)]
        \o [i \in 1..Len(missing_skills) |->
               SkillMatch(missing_skills[i], FALSE)]

InitSkillMatches ==
    /\ Idle
    /\ fn = "skill_matches"
    /\ args \in [required_skills  : MatchSkillLists,
                 candidate_skills : MatchSkillLists]
    /\ ret = <<>>
    /\ phase = 0

\* Stage 3: the deterministic scorer returns the two lists
ListSkills ==
    /\ fn = "skill_matches"
    /\ phase = 0
    /\ LET m == CalculateSkillMatch(args.required_skills,
                                    args.candidate_skills)
       IN  \E matched \in ListsOf(m.matched), missing \in ListsOf(m.missing) :
               ret' = [matched_skills |-> matched,
                       missing_skills |-> missing,
                       skill_matches  |-> <<>>]
    /\ phase' = 1
    /\ UNCHANGED <<fn, args>>
    /\ UNCHANGED restVars
    /\ UNCHANGED sideVars

\* After stage 4: the result is built
ApplyBuildSkillMatches ==
    /\ fn = "skill_matches"
    /\ phase = 1
    /\ ret' = [ret EXCEPT !.skill_matches =
                  BuildSkillMatches(ret.matched_skills, ret.missing_skills)]
    /\ phase' = 2
    /\ UNCHANGED <<fn, args>>
    /\ UNCHANGED restVars
    /\ UNCHANGED sideVars

NextSkillMatches ==
    \/ ListSkills
    \/ ApplyBuildSkillMatches

SpecSkillMatches == InitSkillMatches /\ [][NextSkillMatches]_vars

-----------------------------------------------------------------------------
(* Properties *)

Indices(seq, e) == {i \in 1..Len(seq) : seq[i] = e}

Count(seq, type) == Cardinality({i \in 1..Len(seq) : seq[i].type = type})

ProgressIndices == {i \in 1..Len(events) : events[i].type = "progress"}

\* C1: the progress events respect step order in every run, failing runs
\* included: in_progress of step n strictly precedes completed of step n,
\* every event of step n precedes every event of step n+1, and no step is
\* skipped, repeated or out of range.
C1_StepOrder ==
    /\ \A i, j \in 1..Len(events) : i < j => events[i] # events[j]
    /\ \A i \in ProgressIndices :
          /\ events[i].step \in 1..4
          /\ events[i].status \in {"in_progress", "completed"}
    /\ \A n \in 1..4 : \A j \in Indices(events, Progress(n, "completed")) :
          \E i \in Indices(events, Progress(n, "in_progress")) : i < j
    /\ \A i, j \in ProgressIndices :
          events[i].step < events[j].step => i < j
    /\ \A j \in ProgressIndices :
          events[j].step > 1 =>
             \E i \in Indices(events,
                              Progress(events[j].step - 1, "completed")) :
                i < j

C1_Witness == gpc = "done" /\ Len(events) = 9

\* C2: a successful run has exactly one result event, it is the last event
\* and directly follows the completed event of step 4.
C2_ResultLast ==
    gpc = "done" =>
       /\ Count(events, "result") = 1
       /\ Last(events) = ResultEvent
       /\ Len(events) >= 2
       /\ events[Len(events) - 1] = Progress(4, "completed")
       /\ Count(events, "error") = 0

C2_Witness ==
    gpc = "done" /\ hpc = "done" /\ mode = "stream" /\ stream = events

C4_FailFast ==
    /\ \A i, j \in 1..Len(calls) : i < j => calls[i] # calls[j]
    /\ failed_at \in 1..4 =>
          /\ gpc = "failed"
          /\ \A i \in 1..Len(calls) : calls[i] <= failed_at
          /\ events = SubSeq(events, 1, 2 * failed_at - 1)
          /\ Last(events) = Progress(failed_at, "in_progress")
          /\ built = NoResult
          /\ result = NoResult
          /\ response.status # 200
          /\ response.overall_score = -1

C4_Witness ==
    /\ failed_at = 2
    /\ exc = "TransportError"
    /\ calls = <<1, 2>>
    /\ hpc = "done"
    /\ response.status = 500

\* C5: the stages run strictly in sequence: the calls are made in the order
\* job extraction, CV extraction, semantic validation, recommendation
\* synthesis, and the call of stage n+1 is started only after the completed
\* event of stage n has been emitted and processed by the consumer.
C5_Sequential ==
    /\ \A i \in 1..Len(calls) : calls[i] = i
    /\ \A i \in 2..Len(calls) :
          \E k \in 1..consumed : events[k] = Progress(calls[i] - 1, "completed")
    /\ gpc = "done" => calls = <<1, 2, 3, 4>>

C5_Witness == gpc = "done" /\ calls = <<1, 2, 3, 4>> /\ consumed = 9

\* C6 (as claimed): once the pipeline has completed successfully, the caller
\* of POST /api/v1/analyze receives the computed result with status 200,
\* whatever the persistence calls did.
C6_PersistenceNeverFails ==
    (mode = "api" /\ gpc = "done" /\ hpc = "done") =>
       /\ response.status = 200
       /\ response.overall_score = built.overall_score

\* C7 (as claimed): no document is written to the store before the
\* orchestrator has produced its result.
C7_NoWriteBeforeResult ==
    gpc # "done" => store = <<>>

\* C7 (amended): analysis documents are written only after the pipeline has
\* completed successfully; a failing run writes no analysis document and
\* leaves in the store only the CV and job documents created before the
\* pipeline started.
C7_AnalysisAfterPipeline ==
    /\ \A i \in 1..Len(store) :
          store[i].kind = "analysis" => (gpc = "done" /\ result # NoResult)
    /\ gpc # "done" => store \in {<<>>, <<CVDoc>>, <<CVDoc, JobDoc>>}

C7_Witness ==
    /\ gpc = "failed"
    /\ hpc = "done"
    /\ store = <<CVDoc, JobDoc>>

C9_FinalScore ==
    /\ hybrid_score # NoScore =>
          LET x == 60 * det_in + 40 * llm_in
              f == hybrid_score.final_score
          IN  /\ 100 * f - x < 50
              /\ x - 100 * f < 50
              /\ f \in 0..10000
    /\ hybrid_again # NoScore =>
          hybrid_again.final_score = hybrid_score.final_score

C9_Witness ==
    /\ det_in = 6665
    /\ llm_in = 8749
    /\ hybrid_again # NoScore
    /\ hybrid_score.final_score = 7499

\* C10 (as claimed): the grade of a HybridScore is the grade the thresholds
\* assign to its reported final_score.
C10_GradeOfReportedScore ==
    hybrid_score # NoScore =>
       hybrid_score.grade = CalculateGrade(100 * hybrid_score.final_score)

\* C11: every AnalysisResult handed to a caller (the result event of the
\* generator, the return value of execute and analyze_cv, the 200 response)
\* has overall_score within [0,100], whatever semantic percentages the
\* completion capability returned.
C11_OverallScoreInRange ==
    /\ built # NoResult => built.overall_score \in 0..10000
    /\ result # NoResult => result.overall_score \in 0..10000
    /\ response.status = 200 => response.overall_score \in 0..10000

\* A result is returned although the semantic total was above 100.
C11_Witness ==
    /\ result # NoResult
    /\ response.status = 200
    /\ hybrid_score.llm > 10000

\* C12 (as claimed): every LLMScore produced by validate_and_score has
\* semantic_match_percent, soft_skills_match_percent and total_score within
\* [0,100], whatever percentages the response held.
C12_LlmScoreInRange ==
    (fn = "validate_and_score" /\ phase = 1) =>
       /\ ret.semantic_match_percent \in 0..10000
       /\ ret.soft_skills_match_percent \in 0..10000
       /\ ret.total_score \in 0..10000

\* C13: the recommendations list of an AnalysisResult built by
\* _build_analysis_result has between 5 and 10 entries, however many
\* recommendations and quick wins the report held.
C13_RecommendationsLength ==
    (fn = "recommendations" /\ phase = 2) =>
       /\ Len(ret) >= 5
       /\ Len(ret) <= 10

\* A report without recommendations and quick wins has been padded.
C13_Witness ==
    /\ fn = "recommendations"
    /\ phase = 2
    /\ args.recommendations = <<>>
    /\ args.quick_wins = <<>>
    /\ Len(ret) = 5

\* lower-case and trim each name of a list, as a set
LowerTrimSet(skills) == {Strip(Lower(skills[i])) : i \in 1..Len(skills)}

C15_VariantInvariance ==
    (fn = "calculate_skill_match, variants" /\ phase = 1) =>
       /\ ret.first.match_percent.num * ret.second.match_percent.den
             = ret.second.match_percent.num * ret.first.match_percent.den
       /\ ret.first.matched = ret.second.matched
       /\ ret.first.missing = ret.second.missing

\* C16: with an empty required-skill list calculate_skill_match returns
\* 100 percent and empty matched and missing lists, whatever the candidate
\* list holds.
C16_VacuousMatch ==
    (fn = "calculate_skill_match" /\ phase = 1 /\ args.required_skills = <<>>)
       => /\ ret.match_percent.num = 100 * ret.match_percent.den
          /\ ret.matched = {}
          /\ ret.missing = {}

\* Nothing required of a candidate who has two skills.
C16_Witness ==
    /\ fn = "calculate_skill_match"
    /\ phase = 1
    /\ args.required_skills = <<>>
    /\ Len(args.candidate_skills) = 2
    /\ NormalizedSkills(args.candidate_skills) # {}

\* The keys of the gap annotations returned
GapKeys == {g.key : g \in ret.gaps}

\* C17: for required years r >= 0 and candidate years c >= 0 (None counted
\* as 0) calculate_experience_alignment returns 100 without annotation when
\* r <= c <= 2r, max(90, 100 - 2*(c - 2r)) with the single annotation
\* over_qualified when c > 2r, and max(0, 100 - (r - c)/r*100) with the
\* single annotation under_qualified when c < r; the percent is within
\* [0,100]; (5,5) and (5,10) give 100, (5,11) gives at least 90 and less
\* than 100, (5,0) gives 0.  (With r and c in half years, 2*(c - 2r) years
\* of penalty is c - 2r, and the floor of 90 is met at c - 2r = 10.)
C17_PiecewiseReference ==
    LET r == Get(args.required_years, 0)
        c == Get(args.candidate_years, 0)
        p == ret.alignment
    IN  (fn = "calculate_experience_alignment" /\ phase = 1
            /\ r >= 0 /\ c >= 0) =>
           /\ ret.raised = "none"
           /\ (r <= c /\ c <= 2 * r) =>
                 (p.num = 100 * p.den /\ ret.gaps = {})
           /\ (c > 2 * r) =>
                 /\ (c - 2 * r >= 10) => p.num = 90 * p.den
                 /\ (c - 2 * r < 10) => p.num = (100 - (c - 2 * r)) * p.den
                 /\ GapKeys = {"over_qualified"}
                 /\ Cardinality(ret.gaps) = 1
           /\ (c < r) =>
                 /\ p.num * r = 100 * c * p.den
                 /\ GapKeys = {"under_qualified"}
                 /\ Cardinality(ret.gaps) = 1
           /\ 0 <= p.num /\ p.num <= 100 * p.den
           /\ (r = 10 /\ c \in {10, 20}) => p.num = 100 * p.den
           /\ (r = 10 /\ c = 22) =>
                 (90 * p.den <= p.num /\ p.num < 100 * p.den)
           /\ (r = 10 /\ c = 0) => p.num = 0

\* 5 years required, 11 years held: 98 percent, over-qualified.
C17_Witness ==
    /\ fn = "calculate_experience_alignment"
    /\ phase = 1
    /\ args.required_years = <<10>>
    /\ args.candidate_years = <<22>>
    /\ ret.alignment = [num |-> 196, den |-> 2]
    /\ GapKeys = {"over_qualified"}

\* C18 (as claimed): when the required years are 0 or None,
\* calculate_experience_alignment does not enter the under-qualified branch
\* and does not divide by zero, whatever years CV extraction handed over.
C18_NoDivisionByZero ==
    (fn = "calculate_experience_alignment" /\ phase = 1
        /\ Get(args.required_years, 0) = 0) =>
       /\ ret.raised = "none"
       /\ "under_qualified" \notin GapKeys

\* C19 (as claimed): whenever score returns, total_score is
\* skill_match*0.667 + experience_alignment*0.333 rounded to the nearest
\* hundredth, it is within [0,100], it is 100 when both components are 100,
\* and ["Python","FastAPI"] with 5 years against ["python","Django"] with
\* 6 years gives 50.0, {"python"}, {"fastapi"}, 100.0 and 66.65.
C19_DeterministicTotal ==
    (fn = "score" /\ phase = 1 /\ ret.raised = "none") =>
       LET job == args.job_requirements
           cv  == args.candidate_profile
           sm  == CalculateSkillMatch(Get(job.required_skills, <<>>),
                                      Get(cv.skills, <<>>)).match_percent
           ea  == CalculateExperienceAlignment(
                      job.required_years,
                      cv.total_years_experience).alignment
           q   == 10 * sm.den * ea.den
           x   == 667 * sm.num * ea.den + 333 * ea.num * sm.den
       IN  /\ 2 * (q * ret.total_score - x) <= q
           /\ 2 * (x - q * ret.total_score) <= q
           /\ ret.total_score \in 0..10000
           /\ (sm.num = 100 * sm.den /\ ea.num = 100 * ea.den)
                 => ret.total_score = 10000
           /\ (/\ job.required_skills
                     = << << <<"P", "y", "t", "h", "o", "n">>,
                             <<"F", "a", "s", "t", "A", "P", "I">> >> >>
               /\ job.required_years = <<10>>
               /\ cv.skills
                     = << << <<"p", "y", "t", "h", "o", "n">>,
                             <<"D", "j", "a", "n", "g", "o">> >> >>
               /\ cv.total_years_experience = <<12>>)
                 => /\ ret.skill_match_percent = 5000
                    /\ ret.matched_skills = {<<"p", "y", "t", "h", "o", "n">>}
                    /\ ret.missing_skills
                          = {<<"f", "a", "s", "t", "a", "p", "i">>}
                    /\ ret.experience_alignment_percent = 10000
                    /\ ret.total_score = 6665

\* C20 (as claimed): a job or CV extraction response that is well-formed
\* JSON is parsed without error, whichever of its fields are absent, and
\* the absent fields get their defaults (empty list, 0 years, "mid"); the
\* run then passes deterministic scoring without error; parse fails only
\* on text that is not well-formed JSON.
C20_PartialResponsesTolerated ==
    fn = "extraction" =>
       /\ phase >= 1 =>
             /\ ret.job.raised # "none"
                   => args.job_response.json = "malformed"
             /\ ret.job.raised = "none" =>
                   LET f == args.job_response.fields
                       d == ret.job.data
                   IN  /\ f.required_skills.st = "absent"
                             => d.required_skills = Value(<<>>)
                       /\ f.required_years.st = "absent"
                             => d.required_years = Value(0)
                       /\ f.role_type.st = "absent"
                             => d.role_type = Value("mid")
       /\ phase >= 2 =>
             /\ ret.cv.raised # "none"
                   => args.cv_response.json = "malformed"
             /\ ret.cv.raised = "none" =>
                   LET f == args.cv_response.fields
                       d == ret.cv.data
                   IN  /\ f.skills.st = "absent" => d.skills = Value(<<>>)
                       /\ f.total_years_experience.st = "absent"
                             => d.total_years_experience = Value(0)
                       /\ f.work_experience.st = "absent"
                             => d.work_experience = Value(<<>>)
       /\ phase = 3 => ret.det.raised = "none"

\* The stage an error message names, 0 when it names none
StageNamedBy(message) ==
    CASE message = "Invalid JSON response from JobParser agent" -> 1
      [] message = "Invalid JSON response from CVParser agent" -> 2
      [] message = "Invalid JSON from LLM validator" -> 3
      [] message = "Invalid JSON from ReportGenerator" -> 4
      [] OTHER -> 0

\* C21 (as claimed): when the external call of a stage fails, on a malformed
\* response or on a transport failure, the error response the caller of the
\* analyze endpoint receives names the stage that failed.
C21_ErrorNamesStage ==
    (mode = "api" /\ hpc = "done" /\ gpc = "failed"
        /\ exc \in {"ValueError", "TransportError"} /\ failed_at \in 1..4)
       => StageNamedBy(response.message) = failed_at

\* C22 (as claimed): once the caller has disconnected or timed out, the
\* orchestrator emits no further event and starts no further stage.
C22_StopsWhenCallerGone ==
    caller.gone =>
       /\ Len(events) = caller.events
       /\ Len(calls) = caller.calls


\* The run of an input on its own: started, then resumed until it returns
\* or raises.
RECURSIVE RunToEnd(_)
RunToEnd(s) ==
    IF s.run.pc \in {5, 6} THEN s.run ELSE RunToEnd(Resume(s.run, s.frame))

RunAlone(input) ==
    RunToEnd([run |-> StartRun(NewRun(input)), frame |-> EmptyFrame])

IsPrefix(s, t) == Len(s) <= Len(t) /\ s = SubSeq(t, 1, Len(s))

\* C23: concurrent analysis requests do not interfere: of two runs with
\* different inputs, interleaved in any way at their suspension points, each
\* emits the events and returns the result (or raises the exception) of the
\* same run on its own.
C23_RunsDoNotInterfere ==
    fn = "concurrent runs" =>
        \A r \in RunIds :
            LET run   == runs.run[r]
                alone == RunAlone(run.input)
            IN  /\ IsPrefix(run.events, alone.events)
                /\ run.pc \in {5, 6} => run = alone

C23_Witness ==
    /\ fn = "concurrent runs"
    /\ runs.run[1].pc = 5
    /\ runs.run[2].pc = 3
    /\ runs.run[1].result # runs.run[2].result
    /\ runs.run[1].result[1].hybrid_score.missing # {}
    /\ runs.frame[2].job_requirements # runs.frame[1].job_requirements


\* C24: scrape_job_description releases what it opened on every exit path
\* (success, page-load timeout, anti-bot detection, content not found,
\* unexpected error): when the call returns or raises, the page and the
\* browser context it opened are closed, and each was closed exactly once
\* by the call unless the browser took it away first.
C24_ReleasesWhatItOpened ==
    (fn = "LinkedInScraperService" /\ scraper.pc = "idle"
        /\ scraper.last = "scrape")
       => /\ scraper.page \in {"none", "closed"}
          /\ scraper.context \in {"none", "closed"}
          /\ scraper.page_closes <= 1
          /\ scraper.context_closes <= 1
          /\ (scraper.page = "closed" /\ ~scraper.lost)
                => scraper.page_closes = 1
          /\ scraper.context = "closed" => scraper.context_closes = 1

C24_Witness ==
    /\ fn = "LinkedInScraperService"
    /\ scraper.pc = "idle"
    /\ scraper.last = "scrape"
    /\ scraper.outcome = "AntiBotDetected"
    /\ scraper.page = "closed"
    /\ scraper.page_closes = 1
    /\ scraper.context_closes = 1
    /\ scraper.scrapes = 2


\* C30: whenever scrape_job_description proceeds past its readiness check,
\* the browser it holds at that moment is connected (a new one was launched
\* if the old one was gone or disconnected), in every sequence of
\* initialize, scrape_job_description, disconnect and close.
C30_ConnectedPastReadinessCheck ==
    (fn = "LinkedInScraperService" /\ scraper.last = "scrape"
        /\ scraper.pc # "idle")
       => scraper.ready_connected


\* C25: once the completed event of step 4 has been emitted the run can no
\* longer fail: whatever the four stages returned, no exception leaves the
\* generator afterwards and the next event is the result.
C25_NoFailureAfterStep4 ==
    (\E i \in 1..Len(events) : events[i] = Progress(4, "completed"))
       => /\ gpc # "failed"
          /\ exc = "none"
          /\ Len(events) > 8 => events[9] = ResultEvent


\* null is replaced by the default a key gets when it is absent
NullAsAbsent(field, default) ==
    IF field.st = "value" THEN <<field.v>> ELSE <<default>>

\* C26: a field present with null is treated like an absent field by both
\* extractors: when required_skills, required_years, skills or
\* total_years_experience is null in a JSON object (and the candidate's
\* years are not negative), both parses succeed and deterministic scoring
\* gives the score of the empty list and of 0 years.
C26_NullLikeAbsent ==
    LET j == args.job_response
        c == args.cv_response
    IN  (/\ fn = "extraction"
         /\ j.json = "object"
         /\ c.json = "object"
         /\ c.fields.total_years_experience # Value(-2)
         /\ \/ j.fields.required_skills.st = "null"
            \/ j.fields.required_years.st = "null"
            \/ c.fields.skills.st = "null"
            \/ c.fields.total_years_experience.st = "null")
           => /\ phase >= 1 => ret.job.raised = "none"
              /\ phase >= 2 => ret.cv.raised = "none"
              /\ phase = 3 =>
                    /\ ret.det.raised = "none"
                    /\ ret.det \in Score(
                          [required_skills |->
                               NullAsAbsent(j.fields.required_skills, <<>>),
                           required_years |->
                               NullAsAbsent(j.fields.required_years, 0)],
                          [skills |-> NullAsAbsent(c.fields.skills, <<>>),
                           total_years_experience |->
                               NullAsAbsent(c.fields.total_years_experience,
                                            0)])


\* 1 when the condition holds, 0 otherwise
Bit(b) == IF b THEN 1 ELSE 0

HasConcern(s) ==
    LET lower == <<"c", "o", "n", "c", "e", "r", "n">>
        upper == <<"C", "O", "N", "C", "E", "R", "N">>
    IN  \E i \in 0..(Len(s) - 7) :
            \A k \in 1..7 : s[i + k] \in {lower[k], upper[k]}

\* C28: _compile_gaps returns exactly, in this order: (a) the summary of
\* the missing skills, with their number and the first 5 names, iff there
\* are missing skills; (b) the text of every experience-gap annotation, in
\* insertion order; (c) the first 200 characters of the cultural-fit notes
\* iff the notes contain 'concern' in any case; never more than 5 entries.
C28_Gaps ==
    (fn = "_compile_gaps" /\ phase = 1) =>
        LET m    == args.missing_skills
            g    == args.experience_gaps
            hasA == m # <<>>
            hasC == /\ args.cultural_fit_notes # <<>>
                    /\ HasConcern(args.cultural_fit_notes[1])
            posC == Bit(hasA) + Len(g) + 1
        IN  /\ Len(ret) = Bit(hasA) + Len(g) + Bit(hasC)
            /\ Len(ret) <= 5
            /\ hasA =>
                  LET shown == IF Len(m) < 5 THEN Len(m) ELSE 5
                  IN  /\ ret[1][1] = "Missing "
                      /\ ret[1][2] = ToString(Len(m))
                      /\ Len(ret[1]) = 3 + 2 * shown - 1
                      /\ \A i \in 1..shown : ret[1][2 + 2 * i] = m[i]
            /\ \A i \in 1..Len(g) : ret[Bit(hasA) + i] = g[i].description
            /\ hasC =>
                  LET notes == args.cultural_fit_notes[1]
                  IN  /\ Len(ret[posC]) =
                            IF Len(notes) < 200 THEN Len(notes) ELSE 200
                      /\ \A i \in 1..Len(ret[posC]) : ret[posC][i] = notes[i]

\* Six missing skills of which five are named, the under-qualified
\* annotation, and notes that say 'CONCERNS' in capitals.
C28_Witness ==
    /\ fn = "_compile_gaps"
    /\ phase = 1
    /\ Len(args.missing_skills) = 6
    /\ Len(args.experience_gaps) = 1
    /\ args.experience_gaps[1].key = "under_qualified"
    /\ Len(ret) = 3
    /\ Len(ret[1]) = 12
    /\ ret[3] = <<"n", "o", " ", "C", "O", "N", "C", "E", "R", "N", "S">>


\* The lower-cased, trimmed forms of the non-empty names of a list
Normalized(skills) ==
    {Strip(Lower(skills[i])) : i \in {k \in 1..Len(skills) : skills[k] # <<>>}}

====
